---- MODULE Spec2Model ----
(***************************************************************************)
(* Quota tracking and the analyze action of the analytics dashboard.       *)
(*                                                                         *)
(*   config/quota_manager.py  QuotaManager and its process-wide singleton  *)
(*   main.py                  the platform-aware analyze action            *)
(*   youtube.py               YouTubeChannelAnalyser.get_channel_data      *)
(*                                                                         *)
(* Calendar dates are day numbers.  The quota file .quota_usage.json is    *)
(* the variable store: a function from the date keys present in the file   *)
(* to the per-platform counters of that date (a platform key that is       *)
(* absent reads as 0, as usage.get(platform, 0) does).                     *)
(***************************************************************************)
EXTENDS Integers, Sequences, FiniteSets, TLC

\* ---------------------------------------------------------------- bounds
MaxDay == 7            \* the clock runs over days 0..MaxDay
MaxBoots == 1          \* constructions of QuotaManager after the first
MaxIncs == 3           \* increment_usage calls: counters held by the file, and calls per construction
MaxLimit == 2          \* configured daily limits are 0..MaxLimit
MaxAdmit == 5          \* analysis requests that pass the quota check and fetch their data
MaxPages == 2          \* pages the uploads playlist has, batches of a detail fetch
MaxRecs == 2           \* items one response of the API carries, rows of a dataset

\* ------------------------------------------------------ program constants
KeepDays == 7          \* range(7) in _cleanup_old_data
YoutubeDefaultLimit == 50
RedditDefaultLimit == 1000

PageSize == 50         \* maxResults of a listing page, size of a detail batch
MaxVideos == 500       \* max_videos of get_channel_data
QUOTA_ENABLED == TRUE  \* the import of config.quota_manager succeeded

Platforms == {"youtube", "reddit"}
Sessions == {"s1", "s2"}        \* browser sessions of the one process
Days == 0..MaxDay
NoKey == -1            \* "<platform>_daily_limit" is not in st.secrets["limits"]

VARIABLES
    clock,      \* the calendar date: date.today() / datetime.now().date()
    today,      \* QuotaManager.today, set by __init__
    store,      \* contents of .quota_usage.json
    secrets,    \* st.secrets["limits"]: platform -> configured limit or NoKey
    writable,   \* whether open(quota_file, 'w') succeeds
    boots,      \* number of constructions of QuotaManager after the first
    incs,       \* increment_usage(p) calls completed since the construction
    fresh,      \* fresh[p]: the store held no usage of p for the date at construction
    ret,        \* the last call of the tracker's interface and what it returned
    pc,         \* pc[s]: where the analyze action of session s stands
    plat,       \* plat[s]: config["platform"] of the request of session s
    session,    \* session[s]: st.session_state of session s
    message,    \* message[s]: the last st.error / st.success of the analyze action
    checked,    \* checked[s]: can_make_request returned True in this request
    loaded,     \* loaded[s]: the usage dictionary increment_usage has loaded
    obs,        \* the last run of get_channel_data / RedditAnalyser
    admitted,   \* admitted[p]: requests of platform p that passed the quota check
                \* and fetched their data
    raced,      \* an increment_usage saved over a file changed since it loaded
    call,       \* a call of one method on its own: the method and its arguments
    outcome     \* what that call gave, once it has been made

quotaVars == <<clock, today, store, secrets, writable, boots, incs, fresh, ret>>
appVars == <<pc, plat, session, message, checked, loaded, obs, admitted, raced>>
callVars == <<call, outcome>>
vars == <<clock, today, store, secrets, writable, boots, incs, fresh, ret,
          pc, plat, session, message, checked, loaded, obs, admitted, raced,
          call, outcome>>

\* ------------------------------------------------------------ QuotaManager

\* usage.get(day, {}).get(platform, 0)
Get(usage, d, p) == IF d \in DOMAIN usage THEN usage[d][p] ELSE 0

\* _load_usage: the parsed file, {} when it does not exist
LoadUsage == store

\* the limit lookup of can_make_request and get_usage_stats
Limit(p) ==
    IF secrets[p] # NoKey THEN secrets[p]
    ELSE IF p = "youtube" THEN YoutubeDefaultLimit ELSE RedditDefaultLimit

\* can_make_request(platform): today_usage < limit
can_make_request_Le(p) == Get(LoadUsage, today, p) <= Limit(p)
can_make_request(p) == Get(LoadUsage, today, p) < Limit(p)

\* the dictionary increment_usage hands to _save_usage
BumpBy(usage, p, k) ==
    [d \in DOMAIN usage \cup {today} |->
        IF d = today
        THEN [q \in Platforms |->
                IF q = p THEN Get(usage, today, q) + k ELSE Get(usage, today, q)]
        ELSE usage[d]]
BumpNoAdd(usage, p) == BumpBy(usage, p, 0)
BumpTwice(usage, p) == BumpBy(usage, p, 2)
Bump(usage, p) ==
    [d \in DOMAIN usage \cup {today} |->
        IF d = today
        THEN [q \in Platforms |->
                IF q = p THEN Get(usage, today, q) + 1 ELSE Get(usage, today, q)]
        ELSE usage[d]]

\* the sum of all counters the file holds
RECURSIVE SumOver(_, _)
SumOver(usage, ds) ==
    IF ds = {} THEN 0
    ELSE LET d == CHOOSE x \in ds : TRUE
         IN  usage[d]["youtube"] + usage[d]["reddit"] + SumOver(usage, ds \ {d})
StoreTotal == SumOver(store, DOMAIN store)

\* _save_usage: writes the file; a failing write is caught, the warning is
\* printed and the call returns
SaveRaisesUncaught(w) == ~w
SaveRaises(w) == FALSE
SaveUsage(usage) == store' = IF writable THEN usage ELSE store

\* get_usage_stats(platform); percentage is kept as the fraction pct_num/pct_den
get_usage_stats(p) ==
    LET used == Get(LoadUsage, today, p)
        limit == Limit(p)
    IN  [used |-> used,
         limit |-> limit,
         remaining |-> IF limit - used > 0 THEN limit - used ELSE 0,
         pct_num |-> IF limit > 0 THEN used * 100 ELSE 0,
         pct_den |-> IF limit > 0 THEN limit ELSE 1]

\* _cleanup_old_data: the keys of the last KeepDays days, counted from `now`
DatesToKeepFromYesterday(now) == {now - i : i \in 1..KeepDays}
DatesToKeepOneMore(now) == {now - i : i \in 0..KeepDays}
DatesToKeep(now) == {now - i : i \in 0..(KeepDays - 1)}
Cleaned(usage, now) ==
    [d \in {k \in DOMAIN usage : k \in DatesToKeep(now)} |-> usage[d]]


\* --------------------------------------------- YouTubeChannelAnalyser

\* what one upstream call gives: items, no items, HttpError, any other exception
Resp == {"items", "empty", "http_error", "other_error"}

\* the shapes of a channel identifier: a raw 'UC' ID of 24 characters, an
\* '@handle', a URL whose captured segment is such an ID, a URL matched by
\* npat of the patterns, any other text
Idents ==
    {[kind |-> "raw_id", npat |-> 0], [kind |-> "handle", npat |-> 0],
     [kind |-> "url_id", npat |-> 1], [kind |-> "url", npat |-> 1],
     [kind |-> "url", npat |-> 2], [kind |-> "text", npat |-> 0]}

\* the responses to the calls of one resolution, in the order they are issued
ResolverScripts == [1..5 -> Resp]

\* channels().list(forHandle=...) inside a bare except, then search().list
\* inside `except HttpError`; i is the index of the next call
LookupThenSearch(sc, i) ==
    IF sc[i] = "items" THEN [res |-> "found", next |-> i + 1]
    ELSE IF sc[i + 1] = "items" THEN [res |-> "found", next |-> i + 2]
    ELSE IF sc[i + 1] = "other_error" THEN [res |-> "raise", next |-> i + 2]
    ELSE [res |-> "none", next |-> i + 2]

\* the last resort: search().list(q=channel_identifier), else ValueError
LastResort(sc, i) == [ok |-> sc[i] = "items", calls |-> i]

\* the loop over the URL patterns, k matching patterns left, then the last resort
RECURSIVE UrlPatterns(_, _, _)
UrlPatterns(sc, i, k) ==
    IF k = 0 THEN LastResort(sc, i)
    ELSE LET t == LookupThenSearch(sc, i)
         IN  IF t.res = "found" THEN [ok |-> TRUE, calls |-> t.next - 1]
             ELSE IF t.res = "raise" THEN [ok |-> FALSE, calls |-> t.next - 1]
             ELSE UrlPatterns(sc, t.next, k - 1)

extract_channel_id(ident, sc) ==
    IF ident.kind \in {"raw_id", "url_id"} THEN [ok |-> TRUE, calls |-> 0]
    ELSE IF ident.kind = "handle"
    THEN LET t == LookupThenSearch(sc, 1)
         IN  IF t.res = "found" THEN [ok |-> TRUE, calls |-> t.next - 1]
             ELSE IF t.res = "raise" THEN [ok |-> FALSE, calls |-> t.next - 1]
             ELSE UrlPatterns(sc, t.next, ident.npat)
    ELSE UrlPatterns(sc, 1, ident.npat)

ResolveOutcomes == {extract_channel_id(i, sc) : i \in Idents, sc \in ResolverScripts}

\* get_channel_statistics: one call; "no_uploads" is an item without
\* contentDetails.relatedPlaylists.uploads (KeyError)
StatsResp == Resp \cup {"no_uploads"}
VideoTotals == {0, 1, 60}
get_channel_statistics(resp, total) ==
    [ok |-> resp = "items", calls |-> 1, total_videos |-> total]

\* a page of playlistItems().list
ItemCounts == {0, 1, PageSize}
PageResp ==
    {[kind |-> "ok", n |-> n, more |-> m] : n \in ItemCounts, m \in BOOLEAN}
        \cup {[kind |-> k, n |-> 0, more |-> FALSE] : k \in {"http_error", "other_error"}}
\* the pages of a playlist: the last one carries no nextPageToken
PageScripts ==
    UNION {{pg \in [1..n -> PageResp] : ~pg[n].more} : n \in 1..MaxPages}

\* get_video_ids_from_playlist: len IDs collected, i pages requested; err is
\* the error a page met, raised whether it leaves the function as an exception
RECURSIVE ListLoopCatchAll(_, _, _, _)
ListLoopCatchAll(pages, max_results, len, i) ==
    IF ~(len < max_results) \/ i + 1 > Len(pages)
    THEN [n |-> len, calls |-> i, err |-> "none", raised |-> FALSE]
    ELSE LET r == pages[i + 1]
         IN  IF r.kind = "http_error"
             THEN [n |-> len, calls |-> i + 1, err |-> "http", raised |-> FALSE]
             ELSE IF r.kind = "other_error"
             THEN [n |-> len, calls |-> i + 1, err |-> "other", raised |-> FALSE]
             ELSE IF ~r.more
             THEN [n |-> len + r.n, calls |-> i + 1, err |-> "none", raised |-> FALSE]
             ELSE ListLoopCatchAll(pages, max_results, len + r.n, i + 1)
RECURSIVE ListLoopLe(_, _, _, _)
ListLoopLe(pages, max_results, len, i) ==
    IF ~(len <= max_results) \/ i + 1 > Len(pages)
    THEN [n |-> len, calls |-> i, err |-> "none", raised |-> FALSE]
    ELSE LET r == pages[i + 1]
         IN  IF r.kind = "http_error"
             THEN [n |-> len, calls |-> i + 1, err |-> "http", raised |-> FALSE]
             ELSE IF r.kind = "other_error"
             THEN [n |-> len, calls |-> i + 1, err |-> "other", raised |-> TRUE]
             ELSE IF ~r.more
             THEN [n |-> len + r.n, calls |-> i + 1, err |-> "none", raised |-> FALSE]
             ELSE ListLoopLe(pages, max_results, len + r.n, i + 1)
RECURSIVE ListLoop(_, _, _, _)
ListLoop(pages, max_results, len, i) ==
    IF ~(len < max_results) \/ i + 1 > Len(pages)
    THEN [n |-> len, calls |-> i, err |-> "none", raised |-> FALSE]
    ELSE LET r == pages[i + 1]
         IN  IF r.kind = "http_error"
             THEN [n |-> len, calls |-> i + 1, err |-> "http", raised |-> FALSE]
             ELSE IF r.kind = "other_error"
             THEN [n |-> len, calls |-> i + 1, err |-> "other", raised |-> TRUE]
             ELSE IF ~r.more
             THEN [n |-> len + r.n, calls |-> i + 1, err |-> "none", raised |-> FALSE]
             ELSE ListLoop(pages, max_results, len + r.n, i + 1)
get_video_ids_from_playlist(pages, max_results) == ListLoop(pages, max_results, 0, 0)

\* a batch of videos().list: its records are public, or none of them is, or
\* the call raises HttpError, or something else is raised (another exception
\* of the call, a KeyError of a record)
BatchResp == {"public", "private", "http_error", "other_error"}
BatchScripts == [1..MaxPages -> BatchResp]

Min(a, b) == IF a < b THEN a ELSE b

\* get_video_details: batch b of total, nrec records so far
RECURSIVE DetailLoop(_, _, _, _, _)
DetailLoop(batches, nids, b, nrec, calls) ==
    IF b > (nids + PageSize - 1) \div PageSize
    THEN [nrec |-> nrec, calls |-> calls, raised |-> FALSE]
    ELSE LET size == Min(PageSize, nids - PageSize * (b - 1))
             r == batches[b]
         IN  IF r = "other_error" THEN [nrec |-> nrec, calls |-> calls + 1, raised |-> TRUE]
             ELSE IF r = "http_error" THEN DetailLoop(batches, nids, b + 1, nrec, calls + 1)
             ELSE IF r = "private" THEN DetailLoop(batches, nids, b + 1, nrec, calls + 1)
             ELSE DetailLoop(batches, nids, b + 1, nrec + size, calls + 1)
get_video_details(batches, nids) == DetailLoop(batches, nids, 1, 0, 0)

\* ------------------------ extract_channel_id on the text of the identifier

\* a string is a sequence of tokens: single characters, and the words the
\* patterns look for, each counting for the characters it has
TokLen(t) ==
    CASE t = "youtube.com" -> 11 [] t = "channel" -> 7 [] t = "user" -> 4
      [] t = "UC" -> 2 [] t = "uc" -> 2 [] OTHER -> 1
RECURSIVE StrLen(_)
StrLen(s) == IF s = <<>> THEN 0 ELSE TokLen(Head(s)) + StrLen(Tail(s))

\* str.strip()
RECURSIVE lstrip(_)
lstrip(s) == IF s # <<>> /\ Head(s) = " " THEN lstrip(Tail(s)) ELSE s
RECURSIVE rstrip(_)
rstrip(s) ==
    IF s # <<>> /\ s[Len(s)] = " " THEN rstrip(SubSeq(s, 1, Len(s) - 1)) ELSE s
strip_Left(s) == lstrip(s)
strip(s) == rstrip(lstrip(s))

\* str.lower() and str.replace(' ', '')
lower(s) ==
    [i \in 1..Len(s) |->
        CASE s[i] = "A" -> "a" [] s[i] = "B" -> "b" [] s[i] = "UC" -> "uc" [] OTHER -> s[i]]
RECURSIVE remove_spaces(_)
remove_spaces(s) ==
    IF s = <<>> THEN <<>>
    ELSE IF Head(s) = " " THEN remove_spaces(Tail(s))
    ELSE <<Head(s)>> \o remove_spaces(Tail(s))

\* startswith('UC') and len(...) == 24
IsChannelId(s) == s # <<>> /\ Head(s) = "UC" /\ StrLen(s) = 24

\* the literal part of each pattern; the group after it is ([^/?&]+)
Patterns ==
    << <<"youtube.com", "/", "channel", "/">>, <<"youtube.com", "/", "c", "/">>,
       <<"youtube.com", "/", "user", "/">>, <<"youtube.com", "/", "@">>,
       <<"youtube.com", "/">> >>
Separators == {"/", "?", "&"}

\* the longest run of tokens outside Separators that starts at position i
RECURSIVE Segment(_, _)
Segment(s, i) ==
    IF i > Len(s) \/ s[i] \in Separators THEN <<>> ELSE <<s[i]>> \o Segment(s, i + 1)

\* re.search(pattern, s): the leftmost match and its group(1)
re_search(lit, s) ==
    LET at == {i \in 1..Len(s) :
                  /\ i + Len(lit) <= Len(s)
                  /\ SubSeq(s, i, i + Len(lit) - 1) = lit
                  /\ s[i + Len(lit)] \notin Separators}
    IN  IF at = {} THEN [found |-> FALSE, group |-> <<>>]
        ELSE LET i == CHOOSE x \in at : \A y \in at : x <= y
             IN  [found |-> TRUE, group |-> Segment(s, i + Len(lit))]

\* channels().list(part='id', forHandle=...) inside a bare except
handle_lookup(r) ==
    IF r.kind = "items" THEN [res |-> "found", id |-> r.items[1].id]
    ELSE [res |-> "none", id |-> <<>>]

\* search().list(q=..., type='channel', maxResults=5) inside `except HttpError`:
\* the first item whose channelTitle equals q (both lowered, and without
\* spaces where squash), else the first item
search_FirstOnly(r, q, squash) ==
    IF r.kind = "other_error" THEN [res |-> "raise", id |-> <<>>]
    ELSE IF r.kind # "items" THEN [res |-> "none", id |-> <<>>]
    ELSE [res |-> "found", id |-> r.items[1].id]
search(r, q, squash) ==
    LET norm(t) == IF squash THEN remove_spaces(lower(t)) ELSE lower(t)
        hits == {k \in 1..Len(r.items) : norm(r.items[k].channelTitle) = norm(q)}
    IN  IF r.kind = "other_error" THEN [res |-> "raise", id |-> <<>>]
        ELSE IF r.kind # "items" THEN [res |-> "none", id |-> <<>>]
        ELSE IF hits # {}
        THEN [res |-> "found", id |-> r.items[CHOOSE k \in hits : \A j \in hits : k <= j].id]
        ELSE [res |-> "found", id |-> r.items[1].id]

\* the handle lookup, then the search: sc[i] answers the i-th call, asked
\* are the calls issued
lookup_then_search(sc, i, q, squash, asked) ==
    LET a1 == Append(asked, [api |-> "channels", q |-> q])
        a2 == Append(a1, [api |-> "search", q |-> q])
        l == handle_lookup(sc[i])
        f == search(sc[i + 1], q, squash)
    IN  IF l.res = "found" THEN [res |-> "found", id |-> l.id, next |-> i + 1, asked |-> a1]
        ELSE [res |-> f.res, id |-> f.id, next |-> i + 2, asked |-> a2]

Returned(id, asked) == [ok |-> TRUE, id |-> id, error |-> "none", asked |-> asked]
Raised(e, asked) == [ok |-> FALSE, id |-> <<>>, error |-> e, asked |-> asked]

\* the last resort: search().list(q=channel_identifier), else ValueError
last_resort_Echo(sc, s, i, asked) ==
    LET a == Append(asked, [api |-> "search", q |-> s])
        f == search(sc[i], s, FALSE)
    IN  IF f.res = "found" THEN Returned(f.id, a)
        ELSE IF f.res = "raise" THEN Raised("other", a)
        ELSE Returned(s, a)
last_resort(sc, s, i, asked) ==
    LET a == Append(asked, [api |-> "search", q |-> s])
        f == search(sc[i], s, FALSE)
    IN  IF f.res = "found" THEN Returned(f.id, a)
        ELSE IF f.res = "raise" THEN Raised("other", a)
        ELSE Raised("ValueError", a)

\* for pattern in patterns, from pattern p on
RECURSIVE pattern_loop(_, _, _, _, _)
pattern_loop(sc, s, p, i, asked) ==
    IF p > Len(Patterns) THEN last_resort(sc, s, i, asked)
    ELSE LET m == re_search(Patterns[p], s)
         IN  IF ~m.found THEN pattern_loop(sc, s, p + 1, i, asked)
             ELSE IF IsChannelId(m.group) THEN Returned(m.group, asked)
             ELSE LET t == lookup_then_search(sc, i, m.group, TRUE, asked)
                  IN  IF t.res = "found" THEN Returned(t.id, t.asked)
                      ELSE IF t.res = "raise" THEN Raised("other", t.asked)
                      ELSE pattern_loop(sc, s, p + 1, t.next, t.asked)

\* extract_channel_id(channel_identifier): the ID returned or the exception
\* raised ("ValueError": could not extract channel ID), and the calls issued
extract_channel_id_text(channel_identifier, sc) ==
    LET s == strip(channel_identifier)
    IN  IF IsChannelId(s) THEN Returned(s, <<>>)
        ELSE IF s # <<>> /\ Head(s) = "@"
        THEN LET t == lookup_then_search(sc, 1, Tail(s), FALSE, <<>>)
             IN  IF t.res = "found" THEN Returned(t.id, t.asked)
                 ELSE IF t.res = "raise" THEN Raised("other", t.asked)
                 ELSE pattern_loop(sc, s, 1, t.next, t.asked)
        ELSE pattern_loop(sc, s, 1, 1, <<>>)

\* ------------------------------- get_video_details, record by record

\* strings are sequences of tokens; the numbers a string can hold
Digits == {"1", "2", "3", "5"}
DigitVal(t) == CASE t = "1" -> 1 [] t = "2" -> 2 [] t = "3" -> 3 [] t = "5" -> 5

\* isodate.parse_duration on the durations the API serves, PT<m>M<s>S:
\* the seconds of the duration, or an exception
parse_duration(s) ==
    IF Len(s) = 4 /\ s[1] = "P" /\ s[2] = "T" /\ s[3] \in Digits /\ s[4] = "M"
    THEN [ok |-> TRUE, total_seconds |-> 60 * DigitVal(s[3])]
    ELSE IF Len(s) = 4 /\ s[1] = "P" /\ s[2] = "T" /\ s[3] \in Digits /\ s[4] = "S"
    THEN [ok |-> TRUE, total_seconds |-> DigitVal(s[3])]
    ELSE IF Len(s) = 6 /\ s[1] = "P" /\ s[2] = "T" /\ s[3] \in Digits /\ s[4] = "M"
                       /\ s[5] \in Digits /\ s[6] = "S"
    THEN [ok |-> TRUE, total_seconds |-> 60 * DigitVal(s[3]) + DigitVal(s[5])]
    ELSE [ok |-> FALSE, total_seconds |-> 0]

\* publishedAt.replace('Z', '+00:00')
replace_Z(s) == [i \in 1..Len(s) |-> IF s[i] = "Z" THEN "+00:00" ELSE s[i]]

\* datetime.fromisoformat on <day>T<hour>[+00:00]: the instant, or an exception
fromisoformat(s) ==
    IF /\ Len(s) \in {3, 4}
       /\ s[1] \in Digits /\ s[2] = "T" /\ s[3] \in Digits
       /\ Len(s) = 4 => s[4] = "+00:00"
    THEN [ok |-> TRUE, day |-> DigitVal(s[1]), hour |-> DigitVal(s[3]), aware |-> Len(s) = 4]
    ELSE [ok |-> FALSE, day |-> 0, hour |-> 0, aware |-> FALSE]

\* round(x, 4) of x = num / den, in units of 0.0001
Round4(num, den) == (2 * num * 10000 + den) \div (2 * den)

\* engagement_rate of a record, as it is stored: round(..., 4)
engagement_rate_LikesOnly(like_count, comment_count, view_count) ==
    IF view_count > 0 THEN Round4(like_count * 100, view_count) ELSE 0
engagement_rate(like_count, comment_count, view_count) ==
    IF view_count > 0 THEN Round4((like_count + comment_count) * 100, view_count) ELSE 0

\* the keys an item of videos().list can carry, and those the loop reads
\* with item[...] rather than .get(...)
ItemKeys ==
    {"id", "status", "snippet", "title", "contentDetails", "duration", "publishedAt",
     "statistics"}
RequiredKeys == {"status", "snippet", "title", "contentDetails", "id"}

\* the body of the loop over the items of a batch: the record appended, the
\* item skipped (not public), or the KeyError that leaves the loop
duration_seconds_MinusOne(item) ==
    IF "duration" \in item.keys /\ parse_duration(item.duration).ok
    THEN parse_duration(item.duration).total_seconds
    ELSE 0 - 1
duration_seconds(item) ==
    IF "duration" \in item.keys /\ parse_duration(item.duration).ok
    THEN parse_duration(item.duration).total_seconds
    ELSE 0

upload_date(item, now) ==
    LET d == fromisoformat(replace_Z(item.publishedAt))
    IN  IF "publishedAt" \in item.keys /\ d.ok
        THEN [day |-> d.day, hour |-> d.hour, aware |-> d.aware]
        ELSE now

NoRecord == [video_id |-> 0]
video_data(item, now) ==
    IF "status" \notin item.keys THEN [kind |-> "raise", rec |-> NoRecord]
    ELSE IF item.privacy # "public" THEN [kind |-> "skip", rec |-> NoRecord]
    ELSE IF "snippet" \notin item.keys \/ "contentDetails" \notin item.keys
    THEN [kind |-> "raise", rec |-> NoRecord]
    ELSE LET stat(v) == IF "statistics" \in item.keys THEN v ELSE 0
             view_count == stat(item.views)
             like_count == stat(item.likes)
             comment_count == stat(item.comments)
         IN  IF "id" \notin item.keys \/ "title" \notin item.keys
             THEN [kind |-> "raise", rec |-> NoRecord]
             ELSE [kind |-> "record",
                   rec |-> [video_id |-> item.id,
                            title |-> item.title,
                            upload_date |-> upload_date(item, now),
                            view_count |-> view_count,
                            like_count |-> like_count,
                            comment_count |-> comment_count,
                            engagement_rate |->
                                engagement_rate(like_count, comment_count, view_count),
                            duration_seconds |-> duration_seconds(item),
                            publish_hour |-> upload_date(item, now).hour]]

\* for item in response.get('items', []): the records appended to acc
RECURSIVE ItemLoop(_, _, _, _)
ItemLoop(items, k, now, acc) ==
    IF k > Len(items) THEN [raised |-> FALSE, records |-> acc]
    ELSE LET v == video_data(items[k], now)
         IN  IF v.kind = "raise" THEN [raised |-> TRUE, records |-> <<>>]
             ELSE IF v.kind = "skip" THEN ItemLoop(items, k + 1, now, acc)
             ELSE ItemLoop(items, k + 1, now, Append(acc, v.rec))

\* batch = video_ids[i:i+50]
BatchOneMore(video_ids, i) ==
    SubSeq(video_ids, i + 1, Min(i + PageSize + 1, Len(video_ids)))
Batch(video_ids, i) == SubSeq(video_ids, i + 1, Min(i + PageSize, Len(video_ids)))

\* for batch_num, i in enumerate(range(0, len(video_ids), 50), 1): resp[b] is
\* what videos().list gives for batch b; requests are the batches asked for
RECURSIVE BatchLoopBreak(_, _, _, _, _, _)
BatchLoopBreak(video_ids, resp, now, b, acc, requests) ==
    LET i == PageSize * (b - 1)
    IN  IF i >= Len(video_ids)
        THEN [raised |-> FALSE, records |-> acc, requests |-> requests]
        ELSE LET asked == Append(requests, Batch(video_ids, i))
             IN  IF resp[b].kind = "http_error"
                 THEN [raised |-> FALSE, records |-> acc, requests |-> asked]
                 ELSE IF resp[b].kind = "other_error"
                 THEN [raised |-> TRUE, records |-> <<>>, requests |-> asked]
                 ELSE LET r == ItemLoop(resp[b].items, 1, now, acc)
                      IN  IF r.raised
                          THEN [raised |-> TRUE, records |-> <<>>, requests |-> asked]
                          ELSE BatchLoopBreak(video_ids, resp, now, b + 1, r.records, asked)
RECURSIVE BatchLoop(_, _, _, _, _, _)
BatchLoop(video_ids, resp, now, b, acc, requests) ==
    LET i == PageSize * (b - 1)
    IN  IF i >= Len(video_ids)
        THEN [raised |-> FALSE, records |-> acc, requests |-> requests]
        ELSE LET asked == Append(requests, Batch(video_ids, i))
             IN  IF resp[b].kind = "http_error"
                 THEN BatchLoop(video_ids, resp, now, b + 1, acc, asked)
                 ELSE IF resp[b].kind = "other_error"
                 THEN [raised |-> TRUE, records |-> <<>>, requests |-> asked]
                 ELSE LET r == ItemLoop(resp[b].items, 1, now, acc)
                      IN  IF r.raised
                          THEN [raised |-> TRUE, records |-> <<>>, requests |-> asked]
                          ELSE BatchLoop(video_ids, resp, now, b + 1, r.records, asked)

\* get_video_details(video_ids) with the records it returns
VideoDetails(video_ids, resp, now) == BatchLoop(video_ids, resp, now, 1, <<>>, <<>>)

\* get_channel_data: the result (ok) or the exception it ends with (stage),
\* the upstream calls it issued, the error the listing met and whether the
\* listing returned any ID
get_channel_data(r, st, total, pages, batches) ==
    IF ~r.ok
    THEN [ok |-> FALSE, stage |-> "resolve", calls |-> r.calls, listErr |-> "none", gotIds |-> FALSE]
    ELSE IF ~get_channel_statistics(st, total).ok
    THEN [ok |-> FALSE, stage |-> "stats", calls |-> r.calls + 1, listErr |-> "none", gotIds |-> FALSE]
    ELSE LET actual_limit == Min(MaxVideos, total)
             l == get_video_ids_from_playlist(pages, actual_limit)
             c == r.calls + 1 + l.calls
             got == l.n > 0
         IN  IF l.raised
             THEN [ok |-> FALSE, stage |-> "list", calls |-> c, listErr |-> l.err, gotIds |-> got]
             ELSE IF l.n = 0
             THEN [ok |-> FALSE, stage |-> "no_videos", calls |-> c, listErr |-> l.err, gotIds |-> got]
             ELSE LET d == get_video_details(batches, l.n)
                  IN  IF d.raised
                      THEN [ok |-> FALSE, stage |-> "details", calls |-> c + d.calls,
                            listErr |-> l.err, gotIds |-> got]
                      ELSE IF d.nrec = 0
                      THEN [ok |-> FALSE, stage |-> "no_details", calls |-> c + d.calls,
                            listErr |-> l.err, gotIds |-> got]
                      ELSE [ok |-> TRUE, stage |-> "done", calls |-> c + d.calls,
                            listErr |-> l.err, gotIds |-> got]

\* every run of get_channel_data; the listing and the batches are reached
\* only after a resolved identifier and a stats response with items
RunsAfter(r, st, total) ==
    IF r.ok /\ st = "items"
    THEN {get_channel_data(r, st, total, pages, batches) :
            pages \in PageScripts, batches \in BatchScripts}
    ELSE {get_channel_data(r, st, total, <<>>, <<>>)}
YoutubeRuns ==
    UNION {RunsAfter(r, st, total) :
            r \in ResolveOutcomes, st \in StatsResp, total \in VideoTotals}

\* ------------------------------------------------------- RedditAnalyser

\* the Reddit branch of the analyze action: the import of reddit, the
\* constructor (reddit.user.me()), then analyze_subreddit (whose first
\* subreddit._fetch() is not guarded) or analyze_user
reddit_run(kind, import_ok, connect, fetch) ==
    LET out(ok, stage, calls) ==
            [ok |-> ok, stage |-> stage, calls |-> calls, listErr |-> "none", gotIds |-> FALSE]
    IN  IF ~import_ok THEN out(FALSE, "import", 0)
        ELSE IF connect # "items" THEN out(FALSE, "connect", 1)
        ELSE IF kind = "subreddit" /\ fetch # "items" THEN out(FALSE, "fetch", 2)
        ELSE out(TRUE, "done", 4)

RedditRuns ==
    {reddit_run(k, i, c, f) :
        k \in {"subreddit", "user"}, i \in BOOLEAN,
        c \in {"items", "other_error"}, f \in {"items", "other_error"}}

\* ----------------------------------------------------------- main.py

DataKeys == {"channel_stats", "video_df", "reddit_data"}
EmptySession == [keys |-> {}, platform |-> "none"]
NoRun ==
    [ok |-> FALSE, stage |-> "none", calls |-> 0, listErr |-> "none", gotIds |-> FALSE,
     by |-> "none"]
RunBy(run, s) ==
    [ok |-> run.ok, stage |-> run.stage, calls |-> run.calls, listErr |-> run.listErr,
     gotIds |-> run.gotIds, by |-> s]

\* what the page shows below the analyze action
Displayed(s) ==
    IF "channel_stats" \in session[s].keys /\ session[s].platform = "youtube" THEN "youtube"
    ELSE IF "reddit_data" \in session[s].keys /\ session[s].platform = "reddit" THEN "reddit"
    ELSE "welcome"

\* the quota gate of the analyze action
QuotaDeniedNever(p) == FALSE
QuotaDenied(p) == QUOTA_ENABLED /\ ~can_make_request(p)

\* st.session_state.clear() after a failed get_channel_data
SessionCleared(ss) == EmptySession

\* "Analyze" is clicked in session s: the empty-input check and the quota
\* check, up to the first upstream call
AnalyzeClick(s, p, empty) ==
    /\ pc[s] = "idle"
    /\ admitted[p] < MaxAdmit
    /\ plat' = [plat EXCEPT ![s] = p]
    /\ IF empty
       THEN /\ message' = [message EXCEPT ![s] = "enter_input"]
            /\ checked' = [checked EXCEPT ![s] = FALSE]
            /\ UNCHANGED pc
       ELSE IF QuotaDenied(p)
       THEN /\ message' = [message EXCEPT ![s] = "quota_reached"]
            /\ checked' = [checked EXCEPT ![s] = FALSE]
            /\ UNCHANGED pc
       ELSE /\ message' = [message EXCEPT ![s] = "none"]
            /\ checked' = [checked EXCEPT ![s] = QUOTA_ENABLED /\ can_make_request(p)]
            /\ pc' = [pc EXCEPT ![s] = "fetch"]
    /\ UNCHANGED <<session, loaded, obs, admitted, raced>>
    /\ UNCHANGED quotaVars
    /\ UNCHANGED callVars

\* analyzer.get_channel_data(...) with its assignment to session_state, or
\* the Reddit analysis; an exception ends the request, success goes on to
\* quota_manager.increment_usage (QUOTA_ENABLED)
Fetch(s) ==
    /\ pc[s] = "fetch"
    /\ \E run \in IF plat[s] = "youtube" THEN YoutubeRuns ELSE RedditRuns :
        /\ obs' = RunBy(run, s)
        /\ IF run.ok
           THEN /\ pc' = [pc EXCEPT ![s] = "inc"]
                /\ session' = [session EXCEPT ![s].keys =
                        IF plat[s] = "youtube" THEN @ \cup {"channel_stats", "video_df"} ELSE @]
                /\ admitted' = [admitted EXCEPT ![plat[s]] = @ + 1]
                /\ UNCHANGED message
           ELSE /\ pc' = [pc EXCEPT ![s] = "idle"]
                /\ session' = [session EXCEPT ![s] =
                        IF plat[s] = "youtube" THEN SessionCleared(@) ELSE @]
                /\ message' = [message EXCEPT ![s] = "error"]
                /\ UNCHANGED admitted
    /\ UNCHANGED <<plat, checked, loaded, raced>>
    /\ UNCHANGED quotaVars
    /\ UNCHANGED callVars

\* increment_usage: usage = self._load_usage()
IncLoad(s) ==
    /\ pc[s] = "inc"
    /\ loaded' = [loaded EXCEPT ![s] = LoadUsage]
    /\ pc' = [pc EXCEPT ![s] = "save"]
    /\ UNCHANGED <<plat, session, message, checked, obs, admitted, raced>>
    /\ UNCHANGED quotaVars
    /\ UNCHANGED callVars

\* increment_usage: the addition and self._save_usage(usage); then the rest
\* of the analyze action: the session state, st.success, st.rerun
IncSave(s) ==
    /\ pc[s] = "save"
    /\ SaveUsage(Bump(loaded[s], plat[s]))
    /\ incs' = [incs EXCEPT ![plat[s]] = @ + 1]
    /\ raced' = (raced \/ loaded[s] # store)
    /\ loaded' = [loaded EXCEPT ![s] = <<>>]
    /\ session' = [session EXCEPT ![s] =
            IF plat[s] = "youtube"
            THEN [keys |-> @.keys \cup {"analyzer"}, platform |-> "youtube"]
            ELSE [keys |-> @.keys \cup {"reddit_data"}, platform |-> "reddit"]]
    /\ message' = [message EXCEPT ![s] = "success"]
    /\ pc' = [pc EXCEPT ![s] = "idle"]
    /\ UNCHANGED <<plat, checked, obs, admitted>>
    /\ UNCHANGED <<clock, today, secrets, writable, boots, fresh, ret>>
    /\ UNCHANGED callVars


\* ------------------------------------------------------------------- Init
NoCall == [fn |-> "none"]
NotCalled == [done |-> FALSE]

Init ==
    /\ clock = 0
    /\ today = 0
    /\ store = <<>>
    /\ secrets \in [Platforms -> (0..MaxLimit) \cup {NoKey}]
    /\ writable = TRUE
    /\ boots = 0
    /\ incs = [p \in Platforms |-> 0]
    /\ fresh = [p \in Platforms |-> TRUE]
    /\ ret = [op |-> "init", platform |-> "none", val |-> 0, raised |-> FALSE]
    /\ pc = [s \in Sessions |-> "idle"]
    /\ plat = [s \in Sessions |-> "youtube"]
    /\ session = [s \in Sessions |-> EmptySession]
    /\ message = [s \in Sessions |-> "none"]
    /\ checked = [s \in Sessions |-> FALSE]
    /\ loaded = [s \in Sessions |-> <<>>]
    /\ obs = NoRun
    /\ admitted = [p \in Platforms |-> 0]
    /\ raced = FALSE
    /\ call = NoCall
    /\ outcome = NotCalled

\* ------------------------------------------------- the tracker's interface

\* midnight passes
Tick ==
    /\ clock < MaxDay
    /\ clock' = clock + 1
    /\ UNCHANGED <<today, store, secrets, writable, boots, incs, fresh, ret>>
    /\ UNCHANGED appVars
    /\ UNCHANGED callVars

\* the process starts again: quota_manager = QuotaManager()
Construct ==
    /\ boots < MaxBoots
    /\ boots' = boots + 1
    /\ today' = clock
    /\ LET usage == LoadUsage
           cleaned == Cleaned(usage, clock)
       IN  /\ IF Cardinality(DOMAIN cleaned) # Cardinality(DOMAIN usage)
              THEN SaveUsage(cleaned)
              ELSE UNCHANGED store
           /\ fresh' = [p \in Platforms |-> Get(store', clock, p) = 0]
           /\ ret' = [op |-> "init", platform |-> "none", val |-> 0,
                      raised |-> /\ Cardinality(DOMAIN cleaned) # Cardinality(DOMAIN usage)
                                 /\ SaveRaises(writable)]
    /\ incs' = [p \in Platforms |-> 0]
    /\ UNCHANGED <<clock, secrets, writable>>
    /\ UNCHANGED appVars
    /\ UNCHANGED callVars

CanMakeRequest(p) ==
    /\ ret' = [op |-> "can_make_request", platform |-> p,
               val |-> IF can_make_request(p) THEN 1 ELSE 0, raised |-> FALSE]
    /\ UNCHANGED <<clock, today, store, secrets, writable, boots, incs, fresh>>
    /\ UNCHANGED appVars
    /\ UNCHANGED callVars

\* increment_usage(platform) by a single caller: load, add one, save
IncrementUsage(p) ==
    /\ incs["youtube"] + incs["reddit"] < MaxIncs
    /\ StoreTotal < MaxIncs
    /\ SaveUsage(Bump(LoadUsage, p))
    /\ incs' = [incs EXCEPT ![p] = @ + 1]
    /\ ret' = [op |-> "increment_usage", platform |-> p, val |-> 0,
               raised |-> SaveRaises(writable)]
    /\ UNCHANGED <<clock, today, secrets, writable, boots, fresh>>
    /\ UNCHANGED appVars
    /\ UNCHANGED callVars

GetUsageStats(p) ==
    /\ ret' = [op |-> "get_usage_stats", platform |-> p,
               val |-> get_usage_stats(p).used, raised |-> FALSE]
    /\ UNCHANGED <<clock, today, store, secrets, writable, boots, incs, fresh>>
    /\ UNCHANGED appVars
    /\ UNCHANGED callVars

NextQuota ==
    \/ Tick
    \/ Construct
    \/ \E p \in Platforms : CanMakeRequest(p)
    \/ \E p \in Platforms : IncrementUsage(p)
    \/ \E p \in Platforms : GetUsageStats(p)

SpecQuota == Init /\ [][NextQuota]_vars

\* the quota file becomes unwritable, or writable again
SetWritable ==
    /\ writable' = ~writable
    /\ UNCHANGED <<clock, today, store, secrets, boots, incs, fresh, ret>>
    /\ UNCHANGED appVars
    /\ UNCHANGED callVars

\* the tracker within one day, on a store whose writes can fail
NextFault ==
    \/ SetWritable
    \/ Construct
    \/ \E p \in Platforms : CanMakeRequest(p)
    \/ \E p \in Platforms : IncrementUsage(p)
    \/ \E p \in Platforms : GetUsageStats(p)

SpecFault == Init /\ [][NextFault]_vars

\* one browser session
NextApp ==
    \/ \E p \in Platforms, e \in BOOLEAN : AnalyzeClick("s1", p, e)
    \/ Fetch("s1")
    \/ IncLoad("s1")
    \/ IncSave("s1")

SpecApp == Init /\ [][NextApp]_vars

\* the sessions of the process, each in its own script thread
NextRace ==
    \/ \E s \in Sessions, e \in BOOLEAN : AnalyzeClick(s, "youtube", e)
    \/ \E s \in Sessions : Fetch(s)
    \/ \E s \in Sessions : IncLoad(s)
    \/ \E s \in Sessions : IncSave(s)

SpecRace == Init /\ [][NextRace]_vars

\* ------------------------------------------- one method called on its own

\* the state before such a call: the tracker and the page as Init leaves
\* them, no limit configured
InitCall(calls) ==
    /\ clock = 0
    /\ today = 0
    /\ store = <<>>
    /\ secrets = [p \in Platforms |-> NoKey]
    /\ writable = TRUE
    /\ boots = 0
    /\ incs = [p \in Platforms |-> 0]
    /\ fresh = [p \in Platforms |-> TRUE]
    /\ ret = [op |-> "init", platform |-> "none", val |-> 0, raised |-> FALSE]
    /\ pc = [s \in Sessions |-> "idle"]
    /\ plat = [s \in Sessions |-> "youtube"]
    /\ session = [s \in Sessions |-> EmptySession]
    /\ message = [s \in Sessions |-> "none"]
    /\ checked = [s \in Sessions |-> FALSE]
    /\ loaded = [s \in Sessions |-> <<>>]
    /\ obs = NoRun
    /\ admitted = [p \in Platforms |-> 0]
    /\ raced = FALSE
    /\ call \in calls
    /\ outcome = NotCalled

\* get_video_ids_from_playlist(playlist_id, max_results) over the pages the
\* playlist serves
ListingLimits == {0, 1, PageSize, PageSize + 1, 2 * PageSize}
ListingCalls ==
    {[fn |-> "get_video_ids_from_playlist", pages |-> pg, max_results |-> m] :
        pg \in PageScripts, m \in ListingLimits}

GetVideoIds ==
    /\ call.fn = "get_video_ids_from_playlist"
    /\ ~outcome.done
    /\ LET l == get_video_ids_from_playlist(call.pages, call.max_results)
       IN  outcome' = [done |-> TRUE, n |-> l.n, calls |-> l.calls, err |-> l.err,
                       raised |-> l.raised]
    /\ UNCHANGED call
    /\ UNCHANGED quotaVars
    /\ UNCHANGED appVars

SpecListing == InitCall(ListingCalls) /\ [][GetVideoIds]_vars

\* calculate_engagement_rate(views, likes, comments): the quotient num / den
calculate_engagement_rate(views, likes, comments) ==
    IF views = 0 THEN [num |-> 0, den |-> 1]
    ELSE [num |-> (likes + comments) * 100, den |-> views]

\* get_video_details(video_ids) over the responses of videos().list
NowUtc == [day |-> 6, hour |-> 9, aware |-> TRUE]     \* datetime.now(timezone.utc)
DurationStrings ==
    {<<"P", "T", "1", "M", "2", "S">>, <<"P", "T", "5", "S">>, <<"P", "T", "2", "M">>,
     <<>>, <<"5", "S">>, <<"P", "T", "M">>}
TimestampStrings ==
    {<<"3", "T", "5", "Z">>, <<"2", "T", "1", "+00:00">>, <<"1", "T", "2">>,
     <<>>, <<"yesterday">>, <<"3", "T", "5", "Z", "Z">>}

BaseItem ==
    [keys |-> ItemKeys, id |-> 1, privacy |-> "public", title |-> "t",
     duration |-> <<"P", "T", "1", "M", "2", "S">>,
     publishedAt |-> <<"3", "T", "5", "Z">>,
     views |-> 200, likes |-> 7, comments |-> 3]
\* a public item, a private one, and items that lack one required key
BatchItems ==
    {BaseItem, [BaseItem EXCEPT !.id = 2, !.privacy = "private"]}
        \cup {[BaseItem EXCEPT !.id = 3, !.keys = ItemKeys \ {k}] : k \in RequiredKeys}
\* the same with two of the required keys, for fetches of several batches
FewItems ==
    {BaseItem, [BaseItem EXCEPT !.id = 2, !.privacy = "private"]}
        \cup {[BaseItem EXCEPT !.id = 3, !.keys = ItemKeys \ {k}] : k \in {"status", "title"}}
\* one item in every shape of its fields
RecordItems(base) ==
    {[base EXCEPT !.keys = ks, !.duration = d, !.publishedAt = t,
                  !.views = v, !.likes = l, !.comments = c] :
        ks \in {ItemKeys} \cup {ItemKeys \ {k} : k \in ItemKeys},
        d \in DurationStrings, t \in TimestampStrings,
        v \in {0, 3, 200}, l \in {0, 7}, c \in {0, 3}}

Responses(items) ==
    {[kind |-> "items", items |-> q] : q \in UNION {[1..k -> items] : k \in 0..MaxRecs}}
        \cup {[kind |-> k, items |-> <<>>] : k \in {"http_error", "other_error"}}

\* total_batches = (len(video_ids) + 49) // 50
total_batches(n) == (n + PageSize - 1) \div PageSize

DetailCounts ==
    {0, 1} \cup {PageSize * k : k \in 1..MaxPages}
           \cup {PageSize * k + 1 : k \in 1..(MaxPages - 1)}
DetailCall(n, r) ==
    [fn |-> "get_video_details", video_ids |-> [i \in 1..n |-> i], resp |-> r,
     now |-> NowUtc]
RecordCalls(items) ==
    {[fn |-> "get_video_details", video_ids |-> <<1>>,
      resp |-> <<[kind |-> "items", items |-> <<it>>]>>, now |-> NowUtc] :
        it \in items}
RateCalls ==
    {[fn |-> "calculate_engagement_rate", views |-> v, likes |-> l, comments |-> c] :
        v \in {0, 1, 3, 200}, l \in {0, 1, 7}, c \in {0, 3}}

GetVideoDetails ==
    /\ call.fn = "get_video_details"
    /\ ~outcome.done
    /\ LET d == VideoDetails(call.video_ids, call.resp, call.now)
       IN  outcome' = [done |-> TRUE, raised |-> d.raised, records |-> d.records,
                       requests |-> d.requests]
    /\ UNCHANGED call
    /\ UNCHANGED quotaVars
    /\ UNCHANGED appVars

CalculateEngagementRate ==
    /\ call.fn = "calculate_engagement_rate"
    /\ ~outcome.done
    /\ outcome' = [done |-> TRUE,
                   rate |-> calculate_engagement_rate(call.views, call.likes, call.comments)]
    /\ UNCHANGED call
    /\ UNCHANGED quotaVars
    /\ UNCHANGED appVars

InitDetails ==
    \E n \in DetailCounts :
        \E r \in [1..total_batches(n) ->
                    Responses(IF total_batches(n) = 1 THEN BatchItems ELSE FewItems)] :
            InitCall({DetailCall(n, r)})

SpecDetails == InitDetails /\ [][GetVideoDetails]_vars

NextRecord ==
    \/ GetVideoDetails
    \/ CalculateEngagementRate

SpecRecord == InitCall(RecordCalls(RecordItems(BaseItem)) \cup RateCalls) /\ [][NextRecord]_vars

\* extract_channel_id(channel_identifier) over the answers of the API
Xs(k) == [i \in 1..k |-> "x"]
RawId == <<"UC">> \o Xs(22)
Identifiers ==
    {RawId, <<" ">> \o RawId \o <<" ", " ">>,
     <<"UC">> \o Xs(21), <<"UC">> \o Xs(23), Xs(24),
     <<"UC">> \o Xs(10) \o <<" ">> \o Xs(11),
     <<"@", "a", "B">>, <<" ", "@", "a", "B">>,
     <<"youtube.com", "/", "channel", "/">> \o RawId,
     <<"youtube.com", "/", "channel", "/">> \o RawId \o <<"?", "x">>,
     <<"youtube.com", "/", "c", "/", "a", "B">>,
     <<"youtube.com", "/", "@", "a", "B">>,
     <<"youtube.com", "/", "a", "B">>,
     <<"a", " ", "B">>, <<>>}
ChannelTitles == {<<"A", "b">>, <<"A", " ", "b">>, <<"z">>}
HitId(k) == <<"ch", CASE k = 1 -> "1" [] k = 2 -> "2" [] k = 3 -> "3" [] OTHER -> "n">>
\* what a call gives: items (each with its title and channel ID), no items,
\* HttpError, or another exception
Answers ==
    {[kind |-> "items",
      items |-> [k \in 1..Len(q) |-> [channelTitle |-> q[k], id |-> HitId(k)]]] :
        q \in UNION {[1..n -> ChannelTitles] : n \in 1..MaxRecs}}
        \cup {[kind |-> k, items |-> <<>>] : k \in {"empty", "http_error", "other_error"}}
NoAnswer == {a \in Answers : a.kind # "items"}
MaxCalls == 5          \* the calls one resolution can issue
\* the answers to the calls of one resolution: calls that give nothing, then
\* one call with any answer
Script(pre, last) ==
    [j \in 1..MaxCalls |->
        IF j <= Len(pre) THEN pre[j]
        ELSE IF j = Len(pre) + 1 THEN last
        ELSE [kind |-> "empty", items |-> <<>>]]

InitResolve ==
    \E ident \in Identifiers, n \in 0..(MaxCalls - 1) :
        \E pre \in [1..n -> NoAnswer], last \in Answers :
            InitCall({[fn |-> "extract_channel_id", channel_identifier |-> ident,
                       sc |-> Script(pre, last)]})

ExtractChannelId ==
    /\ call.fn = "extract_channel_id"
    /\ ~outcome.done
    /\ LET r == extract_channel_id_text(call.channel_identifier, call.sc)
       IN  outcome' = [done |-> TRUE, ok |-> r.ok, id |-> r.id, error |-> r.error,
                       asked |-> r.asked]
    /\ UNCHANGED call
    /\ UNCHANGED quotaVars
    /\ UNCHANGED appVars

SpecResolve == InitResolve /\ [][ExtractChannelId]_vars

\* ------------------------------------------------- EngagementCalculator

\* the mask of get_period_stats: upload_date >= start_date, < end_date
InPeriodClosed(d, start_date, end_date) == d >= start_date /\ d <= end_date
InPeriod(d, start_date, end_date) == d >= start_date /\ d < end_date

\* the sum of a column of a frame
RECURSIVE ColumnSum(_, _)
ColumnSum(df, col) ==
    IF df = <<>> THEN 0 ELSE Head(df)[col] + ColumnSum(Tail(df), col)

\* get_period_stats(start_date, end_date) on the frame df
get_period_stats(df, start_date, end_date) ==
    LET keep(row) == InPeriod(row.upload_date, start_date, end_date)
        period_df == SelectSeq(df, keep)
        total_views == ColumnSum(period_df, "view_count")
        total_likes == ColumnSum(period_df, "like_count")
        total_comments == ColumnSum(period_df, "comment_count")
    IN  IF period_df = <<>>
        THEN [videos |-> 0, views |-> 0, likes |-> 0, comments |-> 0,
              engagement_rate |-> [num |-> 0, den |-> 1]]
        ELSE [videos |-> Len(period_df), views |-> total_views, likes |-> total_likes,
              comments |-> total_comments,
              engagement_rate |->
                  calculate_engagement_rate(total_views, total_likes, total_comments)]

\* instants of time, and the rows a dataset can hold
Instants == 0..3
Rows ==
    [upload_date : Instants, view_count : {0, 5}, like_count : {0, 1},
     comment_count : {2}]

InitPeriod ==
    \E n \in 0..MaxRecs :
        \E df \in [1..n -> Rows], a \in Instants, b \in Instants :
            InitCall({[fn |-> "get_period_stats", df |-> df, start_date |-> a,
                       end_date |-> b]})

GetPeriodStats ==
    /\ call.fn = "get_period_stats"
    /\ ~outcome.done
    /\ outcome' = [done |-> TRUE,
                   stats |-> get_period_stats(call.df, call.start_date, call.end_date)]
    /\ UNCHANGED call
    /\ UNCHANGED quotaVars
    /\ UNCHANGED appVars

SpecPeriod == InitPeriod /\ [][GetPeriodStats]_vars


\* ------------------------------------------------ EngagementCalculator
\* Instants are counted in ticks of half a day; a rate or a change is the
\* quotient num / den of two integers.
DayTicks == 2
timedelta(days) == days * DayTicks
MaxTrend == 2                 \* the longest trend asked for
Now == 130                    \* self.now, read once by the constructor

Whole(x) == [num |-> x, den |-> 1]

\* get_last_30_days_stats() and get_previous_30_days_stats()
get_last_30_days_stats(df, now) ==
    LET end_date == now
        start_date == end_date - timedelta(30)
    IN  get_period_stats(df, start_date, end_date)

get_previous_30_days_stats_LaterNow(df, now) ==
    LET end_date == (now + 1) - timedelta(30)
        start_date == end_date - timedelta(30)
    IN  get_period_stats(df, start_date, end_date)

get_previous_30_days_stats(df, now) ==
    LET end_date == now - timedelta(30)
        start_date == end_date - timedelta(30)
    IN  get_period_stats(df, start_date, end_date)

\* calculate_change_percentage(current, previous) on quotients
calculate_change_percentage_NoBaseZero(current, previous) ==
    IF previous.num = 0 THEN Whole(0)
    ELSE [num |-> (current.num * previous.den - previous.num * current.den) * 100,
          den |-> current.den * previous.num]

calculate_change_percentage(current, previous) ==
    IF previous.num = 0
    THEN IF current.num > 0 THEN Whole(100) ELSE Whole(0)
    ELSE [num |-> (current.num * previous.den - previous.num * current.den) * 100,
          den |-> current.den * previous.num]

get_engagement_comparison(df, now) ==
    LET current == get_last_30_days_stats(df, now)
        previous == get_previous_30_days_stats(df, now)
        engagement_change ==
            calculate_change_percentage(current.engagement_rate,
                                        previous.engagement_rate)
        views_change ==
            calculate_change_percentage(Whole(current.views), Whole(previous.views))
        videos_change ==
            calculate_change_percentage(Whole(current.videos), Whole(previous.videos))
    IN  [current_period |-> current,
         previous_period |-> previous,
         engagement_change |-> engagement_change,
         views_change |-> views_change,
         videos_change |-> videos_change,
         is_improving |-> engagement_change.num > 0]

\* the mean of the rows' own rates
RECURSIVE RateSum(_)
RateSum(df) ==
    IF df = <<>> THEN Whole(0)
    ELSE LET r == calculate_engagement_rate(Head(df).view_count, Head(df).like_count,
                                            Head(df).comment_count)
             s == RateSum(Tail(df))
         IN  [num |-> r.num * s.den + s.num * r.den, den |-> r.den * s.den]

get_overall_engagement_MeanOfRates(df) ==
    LET total_views == ColumnSum(df, "view_count")
        total_likes == ColumnSum(df, "like_count")
        total_comments == ColumnSum(df, "comment_count")
    IN  [total_videos |-> Len(df), total_views |-> total_views,
         total_likes |-> total_likes, total_comments |-> total_comments,
         engagement_rate |->
             IF df = <<>> THEN Whole(0)
             ELSE [num |-> RateSum(df).num, den |-> RateSum(df).den * Len(df)]]

get_overall_engagement(df) ==
    LET total_views == ColumnSum(df, "view_count")
        total_likes == ColumnSum(df, "like_count")
        total_comments == ColumnSum(df, "comment_count")
    IN  [total_videos |-> Len(df), total_views |-> total_views,
         total_likes |-> total_likes, total_comments |-> total_comments,
         engagement_rate |->
             calculate_engagement_rate(total_views, total_likes, total_comments)]

\* get_engagement_trend(days): one entry per i in range(days), then reversed
date(instant) == instant \div DayTicks
reversed(s) == [k \in 1..Len(s) |-> s[Len(s) + 1 - k]]

TrendEntry(df, now, i) ==
    LET end_date == now - timedelta(i)
        start_date == end_date - timedelta(1)
        stats == get_period_stats(df, start_date, end_date)
    IN  [date |-> date(start_date), engagement_rate |-> stats.engagement_rate,
         views |-> stats.views, videos |-> stats.videos]

get_engagement_trend_NewestFirst(df, now, days) ==
    [k \in 1..days |-> TrendEntry(df, now, k - 1)]

get_engagement_trend(df, now, days) ==
    LET trends == [k \in 1..days |-> TrendEntry(df, now, k - 1)]
    IN  reversed(trends)

\* the datasets of a calculator: rows uploaded around the ends of the
\* windows the method looks at
Counts == [view_count : {0, 5}, like_count : {0, 1}, comment_count : {2}]
RowsAt(dates) ==
    {[upload_date |-> d, view_count |-> c.view_count, like_count |-> c.like_count,
      comment_count |-> c.comment_count] : d \in dates, c \in Counts}
WindowDates ==
    {Now - timedelta(60) - 1, Now - timedelta(60), Now - timedelta(30) - 1,
     Now - timedelta(30), Now - 1, Now}
TrendDates == (Now - timedelta(MaxTrend) - 1)..Now
Changes == [num : 0..3, den : {1, 2}]

InitCalculator ==
    \/ \E n \in 0..MaxRecs :
          \E df \in [1..n -> RowsAt(WindowDates)],
             fn \in {"get_overall_engagement", "get_engagement_comparison"} :
              InitCall({[fn |-> fn, df |-> df, now |-> Now]})
    \/ \E n \in 0..MaxRecs :
          \E df \in [1..n -> RowsAt(TrendDates)], days \in 0..MaxTrend :
              InitCall({[fn |-> "get_engagement_trend", df |-> df, now |-> Now,
                         days |-> days],
                        [fn |-> "get_period_stats", df |-> df, now |-> Now,
                         start_date |-> Now - timedelta(days), end_date |-> Now]})
    \/ \E current \in Changes, previous \in Changes :
          InitCall({[fn |-> "calculate_change_percentage", current |-> current,
                     previous |-> previous]})

GetOverallEngagement ==
    /\ call.fn = "get_overall_engagement"
    /\ ~outcome.done
    /\ outcome' = [done |-> TRUE, stats |-> get_overall_engagement(call.df)]
    /\ UNCHANGED call
    /\ UNCHANGED quotaVars
    /\ UNCHANGED appVars

GetEngagementComparison ==
    /\ call.fn = "get_engagement_comparison"
    /\ ~outcome.done
    /\ outcome' = [done |-> TRUE,
                   comparison |-> get_engagement_comparison(call.df, call.now)]
    /\ UNCHANGED call
    /\ UNCHANGED quotaVars
    /\ UNCHANGED appVars

GetEngagementTrend ==
    /\ call.fn = "get_engagement_trend"
    /\ ~outcome.done
    /\ outcome' = [done |-> TRUE,
                   trends |-> get_engagement_trend(call.df, call.now, call.days)]
    /\ UNCHANGED call
    /\ UNCHANGED quotaVars
    /\ UNCHANGED appVars

CalculateChangePercentage ==
    /\ call.fn = "calculate_change_percentage"
    /\ ~outcome.done
    /\ outcome' = [done |-> TRUE,
                   change |-> calculate_change_percentage(call.current, call.previous)]
    /\ UNCHANGED call
    /\ UNCHANGED quotaVars
    /\ UNCHANGED appVars

NextCalculator ==
    \/ GetPeriodStats
    \/ GetOverallEngagement
    \/ GetEngagementComparison
    \/ GetEngagementTrend
    \/ CalculateChangePercentage

SpecCalculator == InitCalculator /\ [][NextCalculator]_vars


\* ------------------------------------------------ main.py: coverage warning
\* coverage_percent as the quotient num / den; the warning names the two
\* counts (its text also carries the percentage, which is left out here).
VideoCounts == 0..101

coverage_percent(fetched_count, total_videos_channel) ==
    IF total_videos_channel > 0
    THEN [num |-> fetched_count * 100, den |-> total_videos_channel]
    ELSE Whole(0)

NoWarning == [shown |-> FALSE]

coverage_warning_Le(fetched_count, total_videos_channel) ==
    LET percent == coverage_percent(fetched_count, total_videos_channel)
    IN  IF percent.num <= 95 * percent.den
        THEN [shown |-> TRUE, fetched |-> fetched_count, total |-> total_videos_channel]
        ELSE NoWarning

coverage_warning(fetched_count, total_videos_channel) ==
    LET percent == coverage_percent(fetched_count, total_videos_channel)
    IN  IF percent.num < 95 * percent.den
        THEN [shown |-> TRUE, fetched |-> fetched_count, total |-> total_videos_channel]
        ELSE NoWarning

InitCoverage ==
    \E f \in VideoCounts, t \in VideoCounts :
        InitCall({[fn |-> "coverage", fetched_count |-> f, total_videos_channel |-> t]})

ShowCoverage ==
    /\ call.fn = "coverage"
    /\ ~outcome.done
    /\ outcome' = [done |-> TRUE,
                   warning |-> coverage_warning(call.fetched_count,
                                                call.total_videos_channel)]
    /\ UNCHANGED call
    /\ UNCHANGED quotaVars
    /\ UNCHANGED appVars

SpecCoverage == InitCoverage /\ [][ShowCoverage]_vars


\* ------------------------------------------------ RedditAnalyser, subreddits
\* A post of the hot listing: its score, its comment count, and whether
\* reading one of its attributes raises. Stored rates are whole numbers of
\* 0.0001 per cent (round(x, 4)) or of 0.01 per cent (round(x, 2)).
RoundDiv(num, den) == (2 * num + den) \div (2 * den)
Round2(num, den) == RoundDiv(num * 100, den)

Posts == [score : {0, 1, 5}, num_comments : {0, 2}, bad : BOOLEAN]
MemberCounts == {0, 1, 3, 7}
EmptyFrame == <<>>

\* the body of the loop over subreddit.hot(limit): the rows after this post
PostRow(posts_list, post, member_count) ==
    IF member_count = 0 \/ post.bad
    THEN posts_list                                   \* except Exception: continue
    ELSE Append(posts_list,
                [upvotes |-> post.score,
                 num_comments |-> post.num_comments,
                 engagement_rate |->
                     Round4((post.score + post.num_comments) * 100, member_count)])

RECURSIVE PostLoop(_, _, _)
PostLoop(posts, posts_list, member_count) ==
    IF posts = <<>> THEN posts_list
    ELSE PostLoop(Tail(posts), PostRow(posts_list, Head(posts), member_count),
                  member_count)

\* _fetch_subreddit_posts: a listing that raises leaves an empty frame
fetch_subreddit_posts(posts, hot_raises, member_count) ==
    IF hot_raises THEN EmptyFrame
    ELSE PostLoop(posts, <<>>, member_count)

RECURSIVE ColumnMax(_, _)
ColumnMax(df, col) ==
    IF Len(df) = 1 THEN Head(df)[col]
    ELSE LET m == ColumnMax(Tail(df), col)
         IN  IF Head(df)[col] > m THEN Head(df)[col] ELSE m

calculate_subreddit_engagement_MeanOfRates(df, member_count) ==
    IF df = EmptyFrame
    THEN [total_upvotes |-> 0, total_comments |-> 0, avg_engagement_rate |-> 0,
          total_engagement_rate |-> 0, comment_rate |-> 0,
          max_engagement_rate |-> 0, total_posts_fetched |-> 0]
    ELSE LET total_upvotes == ColumnSum(df, "upvotes")
             total_comments == ColumnSum(df, "num_comments")
         IN  [total_upvotes |-> total_upvotes,
              total_comments |-> total_comments,
              avg_engagement_rate |->
                  RoundDiv(ColumnSum(df, "engagement_rate"), 100 * Len(df)),
              total_engagement_rate |->
                  RoundDiv(ColumnSum(df, "engagement_rate"), 100 * Len(df)),
              comment_rate |-> Round2(total_comments * 100, member_count),
              max_engagement_rate |-> RoundDiv(ColumnMax(df, "engagement_rate"), 100),
              total_posts_fetched |-> Len(df)]

\* _calculate_subreddit_engagement(df, member_count)
calculate_subreddit_engagement(df, member_count) ==
    IF df = EmptyFrame
    THEN [total_upvotes |-> 0, total_comments |-> 0, avg_engagement_rate |-> 0,
          total_engagement_rate |-> 0, comment_rate |-> 0,
          max_engagement_rate |-> 0, total_posts_fetched |-> 0]
    ELSE LET total_upvotes == ColumnSum(df, "upvotes")
             total_comments == ColumnSum(df, "num_comments")
         IN  [total_upvotes |-> total_upvotes,
              total_comments |-> total_comments,
              avg_engagement_rate |->
                  RoundDiv(ColumnSum(df, "engagement_rate"), 100 * Len(df)),
              total_engagement_rate |->
                  Round2((total_upvotes + total_comments) * 100, member_count),
              comment_rate |-> Round2(total_comments * 100, member_count),
              max_engagement_rate |-> RoundDiv(ColumnMax(df, "engagement_rate"), 100),
              total_posts_fetched |-> Len(df)]

\* _get_subreddit_info: the reported member count, or 1 when reading it raises
get_subreddit_info(info_raises, subscribers) ==
    IF info_raises THEN 1 ELSE subscribers

analyze_subreddit_Raising(found, info_raises, subscribers, posts, hot_raises) ==
    IF ~found \/ subscribers = 0 THEN [raised |-> TRUE]
    ELSE LET members == get_subreddit_info(info_raises, subscribers)
             posts_df == fetch_subreddit_posts(posts, hot_raises, members)
             engagement_stats == calculate_subreddit_engagement(posts_df, members)
         IN  [raised |-> FALSE, members |-> members, stats |-> engagement_stats,
              posts_analyzed |-> Len(posts_df), posts |-> posts_df]

\* analyze_subreddit: subreddit._fetch() raises for a subreddit that is not
\* found, and the exception is raised again after the message
analyze_subreddit(found, info_raises, subscribers, posts, hot_raises) ==
    IF ~found THEN [raised |-> TRUE]
    ELSE LET members == get_subreddit_info(info_raises, subscribers)
             posts_df == fetch_subreddit_posts(posts, hot_raises, members)
             engagement_stats == calculate_subreddit_engagement(posts_df, members)
         IN  [raised |-> FALSE, members |-> members, stats |-> engagement_stats,
              posts_analyzed |-> Len(posts_df), posts |-> posts_df]

InitSubreddit ==
    \E n \in 0..MaxRecs :
        \E posts \in [1..n -> Posts], subscribers \in MemberCounts,
           found \in BOOLEAN, info_raises \in BOOLEAN, hot_raises \in BOOLEAN :
            InitCall({[fn |-> "analyze_subreddit", found |-> found,
                       info_raises |-> info_raises, subscribers |-> subscribers,
                       posts |-> posts, hot_raises |-> hot_raises]})

AnalyzeSubreddit ==
    /\ call.fn = "analyze_subreddit"
    /\ ~outcome.done
    /\ outcome' = [done |-> TRUE,
                   result |-> analyze_subreddit(call.found, call.info_raises,
                                                call.subscribers, call.posts,
                                                call.hot_raises)]
    /\ UNCHANGED call
    /\ UNCHANGED quotaVars
    /\ UNCHANGED appVars

SpecSubreddit == InitSubreddit /\ [][AnalyzeSubreddit]_vars


\* ------------------- get_video_ids_from_playlist, one page request at a time
\* The loop of get_video_ids_from_playlist with an upstream that answers each
\* request as it likes: len IDs collected, requests issued (counted up to
\* MaxRequests), last the answer to the latest request, paged whether every
\* page that carried a nextPageToken so far held at least one item.
MaxRequests == PageSize + 3
LoopLimits == {0, 1, 2, 3, PageSize + 1}
PageItems == {0, 1, 2, PageSize}

LoopStart ==
    [done |-> FALSE, len |-> 0, requests |-> 0, last |-> "none", paged |-> TRUE,
     raised |-> FALSE]
Loop == IF outcome = NotCalled THEN LoopStart ELSE outcome

\* one pass of the body of `while len(video_ids) < max_results`
ListPage_RetryOnError ==
    /\ call.fn = "listing_loop"
    /\ ~Loop.done
    /\ Loop.len < call.max_results
    /\ LET requests == Min(Loop.requests + 1, MaxRequests)
       IN  \/ \E n \in PageItems, more \in BOOLEAN :
                outcome' = [done |-> ~more,                       \* break
                            len |-> Loop.len + n,
                            requests |-> requests,
                            last |-> IF more THEN "page" ELSE "last_page",
                            paged |-> Loop.paged /\ (more => n > 0),
                            raised |-> FALSE]
           \/ outcome' = [Loop EXCEPT !.requests = requests, !.last = "http_error"]
           \/ outcome' = [Loop EXCEPT !.done = TRUE, !.requests = requests,
                                      !.last = "other_error", !.raised = TRUE]
    /\ UNCHANGED call
    /\ UNCHANGED quotaVars
    /\ UNCHANGED appVars

ListPage ==
    /\ call.fn = "listing_loop"
    /\ ~Loop.done
    /\ Loop.len < call.max_results
    /\ LET requests == Min(Loop.requests + 1, MaxRequests)
       IN  \/ \E n \in PageItems, more \in BOOLEAN :
                outcome' = [done |-> ~more,                       \* break
                            len |-> Loop.len + n,
                            requests |-> requests,
                            last |-> IF more THEN "page" ELSE "last_page",
                            paged |-> Loop.paged /\ (more => n > 0),
                            raised |-> FALSE]
           \* except HttpError: break
           \/ outcome' = [Loop EXCEPT !.done = TRUE, !.requests = requests,
                                      !.last = "http_error"]
           \* any other exception leaves the function
           \/ outcome' = [Loop EXCEPT !.done = TRUE, !.requests = requests,
                                      !.last = "other_error", !.raised = TRUE]
    /\ UNCHANGED call
    /\ UNCHANGED quotaVars
    /\ UNCHANGED appVars

\* the loop test fails: return video_ids
ListReturn ==
    /\ call.fn = "listing_loop"
    /\ ~Loop.done
    /\ ~(Loop.len < call.max_results)
    /\ outcome' = [Loop EXCEPT !.done = TRUE]
    /\ UNCHANGED call
    /\ UNCHANGED quotaVars
    /\ UNCHANGED appVars

NextLoop == ListPage \/ ListReturn

\* a request is answered or raises, and the loop goes on to its next step
SpecLoop ==
    /\ InitCall({[fn |-> "listing_loop", max_results |-> m] : m \in LoopLimits})
    /\ [][NextLoop]_vars
    /\ WF_vars(ListPage)
    /\ WF_vars(ListReturn)


\* ------------------------- get_channel_data with the number of its records
\* A response of videos().list by the items it carries: public ones, each
\* giving a record, and others, skipped; or the exception the batch ends with
\* (HttpError, or anything else: another exception of the call, a KeyError).
DetailResp ==
    {[kind |-> "ok", public |-> p, hidden |-> h] : p \in ItemCounts, h \in {0, 1}}
        \cup {[kind |-> k, public |-> 0, hidden |-> 0] :
                k \in {"http_error", "other_error"}}

\* get_video_details(video_ids) for nids IDs: the records after batch b
RECURSIVE CountLoop(_, _, _, _)
CountLoop(batches, nids, b, nrec) ==
    IF b > total_batches(nids) THEN [nrec |-> nrec, raised |-> FALSE]
    ELSE IF batches[b].kind = "other_error" THEN [nrec |-> 0, raised |-> TRUE]
    ELSE IF batches[b].kind = "http_error" THEN CountLoop(batches, nids, b + 1, nrec)
    ELSE CountLoop(batches, nids, b + 1, nrec + batches[b].public)

MaxVideosArgs == {1, PageSize, MaxVideos}

Failed(error, ids) == [ok |-> FALSE, error |-> error, ids |-> ids, records |-> 0]

channel_data_IgnoresTotal(resolved, st, total, max_videos, pages, batches) ==
    IF ~resolved THEN Failed("Could not extract channel ID", 0)
    ELSE IF ~get_channel_statistics(st, total).ok THEN Failed("statistics", 0)
    ELSE LET actual_limit == max_videos
             video_ids == get_video_ids_from_playlist(pages, actual_limit)
             fetched == CountLoop(batches, video_ids.n, 1, 0)
         IN  IF video_ids.raised THEN Failed("listing", 0)
             ELSE IF video_ids.n = 0 THEN Failed("No videos found", 0)
             ELSE IF fetched.raised THEN Failed("details", video_ids.n)
             ELSE IF fetched.nrec = 0
             THEN Failed("Could not fetch video details", video_ids.n)
             ELSE [ok |-> TRUE, error |-> "none", ids |-> video_ids.n,
                   records |-> fetched.nrec]

channel_data_EmptyAllowed(resolved, st, total, max_videos, pages, batches) ==
    IF ~resolved THEN Failed("Could not extract channel ID", 0)
    ELSE IF ~get_channel_statistics(st, total).ok THEN Failed("statistics", 0)
    ELSE LET actual_limit == Min(max_videos, total)
             video_ids == get_video_ids_from_playlist(pages, actual_limit)
             fetched == CountLoop(batches, video_ids.n, 1, 0)
         IN  IF video_ids.raised THEN Failed("listing", 0)
             ELSE IF video_ids.n = 0 THEN Failed("No videos found", 0)
             ELSE IF fetched.raised THEN Failed("details", video_ids.n)
             ELSE [ok |-> TRUE, error |-> "none", ids |-> video_ids.n,
                   records |-> fetched.nrec]

\* get_channel_data(channel_identifier, max_videos): the exception it ends
\* with, or the number of IDs listed and of records in the dataset it returns
channel_data(resolved, st, total, max_videos, pages, batches) ==
    IF ~resolved THEN Failed("Could not extract channel ID", 0)
    ELSE IF ~get_channel_statistics(st, total).ok THEN Failed("statistics", 0)
    ELSE LET actual_limit == Min(max_videos, total)
             video_ids == get_video_ids_from_playlist(pages, actual_limit)
             fetched == CountLoop(batches, video_ids.n, 1, 0)
         IN  IF video_ids.raised THEN Failed("listing", 0)
             ELSE IF video_ids.n = 0 THEN Failed("No videos found", 0)
             ELSE IF fetched.raised THEN Failed("details", video_ids.n)
             ELSE IF fetched.nrec = 0
             THEN Failed("Could not fetch video details", video_ids.n)
             ELSE [ok |-> TRUE, error |-> "none", ids |-> video_ids.n,
                   records |-> fetched.nrec]

ChannelCall(resolved, st, total, max_videos, pages, batches) ==
    [fn |-> "get_channel_data", resolved |-> resolved, st |-> st, total |-> total,
     max_videos |-> max_videos, pages |-> pages, batches |-> batches]

\* the upstream's answers to the batches: those drawn, and one public item
\* for any batch after them
BatchAnswers(batches) ==
    [b \in 1..MaxPages |->
        IF b <= Len(batches) THEN batches[b]
        ELSE [kind |-> "ok", public |-> 1, hidden |-> 0]]

\* the listing and the batches are reached only after a resolved identifier
\* and a statistics response with items; the answers are drawn for as many
\* batches as the listed IDs need
InitChannel ==
    \E total \in VideoTotals, max_videos \in MaxVideosArgs :
        \/ \E pages \in PageScripts :
              LET nids == get_video_ids_from_playlist(pages, Min(max_videos, total)).n
              IN  \E batches \in [1..total_batches(nids) -> DetailResp] :
                      InitCall({ChannelCall(TRUE, "items", total, max_videos,
                                            pages, BatchAnswers(batches))})
        \/ \E st \in StatsResp :
              InitCall({ChannelCall(FALSE, st, total, max_videos, <<>>, <<>>),
                        ChannelCall(st # "items", st, total, max_videos, <<>>, <<>>)})

GetChannelData ==
    /\ call.fn = "get_channel_data"
    /\ ~outcome.done
    /\ outcome' = [done |-> TRUE,
                   result |-> channel_data(call.resolved, call.st, call.total,
                                           call.max_videos, call.pages, call.batches)]
    /\ UNCHANGED call
    /\ UNCHANGED quotaVars
    /\ UNCHANGED appVars

SpecChannel == InitChannel /\ [][GetChannelData]_vars

\* ================================================================ claims

\* C1: with daily limit L, a store that held no usage of the platform for the
\* date when the tracker was constructed, and a single caller, after N calls
\* of increment_usage(platform) on that date can_make_request(platform) is
\* false if and only if N >= L.
C1_DeniedIffLimitReached ==
    \A p \in Platforms :
        (fresh[p] /\ today = clock) =>
            ((~can_make_request(p)) <=> (incs[p] >= Limit(p)))

C1_Witness ==
    \E p \in Platforms :
        /\ fresh[p] /\ today = clock
        /\ incs[p] = Limit(p) /\ incs[p] > 0
        /\ ret = [op |-> "can_make_request", platform |-> p, val |-> 0, raised |-> FALSE]

\* C2: when the calendar date rolls over, the process-wide tracker reports
\* usage 0 for every platform, whatever the previous day's count was.
\* Increments made after the rollover are counted under the new date.
C2_RolloverResetsUsage ==
    [][\A p \in Platforms :
        /\ clock' # clock =>
              /\ get_usage_stats(p).used' = 0
              /\ Limit(p) > 0 => can_make_request(p)'
        /\ incs'[p] = incs[p] + 1 =>
              Get(store', clock', p) = Get(store, clock, p) + 1]_vars

\* C5: within one calendar date no operation of the tracker (can_make_request,
\* increment_usage, get_usage_stats, the cleanup of a construction) lowers the
\* persisted counter of any platform for that date.
C5_NeverDecremented ==
    [][clock' = clock =>
        \A p \in Platforms : Get(store', clock, p) >= Get(store, clock, p)]_vars

C5_Witness ==
    \E p \in Platforms :
        /\ boots > 0 /\ today = clock /\ ~fresh[p]
        /\ Get(store, clock, p) >= 2
        /\ ret.op = "get_usage_stats"

\* C6 (as stated): after a construction and after every read the file holds
\* no date key other than the current date.
C6_OnlyCurrentDateKept ==
    [][(boots' # boots \/ (ret' # ret /\ ret'.op \in {"can_make_request", "get_usage_stats"}))
        => DOMAIN store' \subseteq {clock'}]_vars

\* C6 (amended): a construction that can write the file leaves no date key
\* outside the last KeepDays days (the current date and the six before it);
\* can_make_request and get_usage_stats leave the file as it is.
C6_LastWeekKept ==
    [][/\ (boots' # boots /\ writable) =>
            \A d \in DOMAIN store' : d <= clock' /\ clock' - d < KeepDays
       /\ (ret' # ret /\ ret'.op \in {"can_make_request", "get_usage_stats"}) => store' = store]_vars

C6_Witness ==
    /\ boots > 0 /\ today = clock /\ clock = KeepDays - 1
    /\ DOMAIN store = {0}
    /\ ret.op = "get_usage_stats"

C3_OvershootBound ==
    \A p \in Platforms : admitted[p] <= Limit(p) + (Cardinality(Sessions) - 1)

\* C3 (amended): the requests admitted on one date never exceed L + (K - 1)
\* as long as no increment_usage has saved over a file that another caller
\* wrote after it was loaded; such a save loses the other caller's increment.
C3_OvershootBoundWithoutLostUpdate ==
    ~raced =>
        \A p \in Platforms : admitted[p] <= Limit(p) + (Cardinality(Sessions) - 1)

C3_Witness ==
    /\ ~raced
    /\ Limit("youtube") = MaxLimit
    /\ admitted["youtube"] = Limit("youtube") + (Cardinality(Sessions) - 1)
    /\ Get(store, today, "youtube") = admitted["youtube"]

\* C4: an analysis request adds exactly one to the counter of its platform
\* when it completes successfully, and no other step of a request (the quota
\* denial, a failing fetch, however many upstream calls it made) changes the
\* quota store.
C4_QuotaChangedOnlyBySuccess ==
    [][/\ \A s \in Sessions :
            (pc[s] # "idle" /\ pc'[s] = "idle" /\ message'[s] = "success") =>
              \A d \in DOMAIN store \cup DOMAIN store' \cup {today}, q \in Platforms :
                 Get(store', d, q) =
                    Get(store, d, q) + (IF d = today /\ q = plat[s] THEN 1 ELSE 0)
       /\ store' # store =>
            \E s \in Sessions :
                pc[s] # "idle" /\ pc'[s] = "idle" /\ message'[s] = "success"]_vars

C4_Witness ==
    /\ pc["s1"] = "idle" /\ message["s1"] = "error"
    /\ obs.by = "s1" /\ obs.stage = "no_details" /\ obs.calls > 3
    /\ Get(store, today, "youtube") = 1
    /\ incs["youtube"] = 1 /\ admitted["youtube"] = 1

\* C8: after an analysis request that ended in a fatal error (a failed fetch
\* or the quota denial) the session state holds no dataset: nothing fetched
\* earlier is left to be displayed.
C8_FailedRequestLeavesNoDataset ==
    \A s \in Sessions :
        (pc[s] = "idle" /\ message[s] \in {"error", "quota_reached"}) =>
            (session[s].keys \cap DataKeys = {} /\ Displayed(s) = "welcome")

\* C9: upstream calls are issued only by a request whose can_make_request
\* returned true, and a request denied by the quota check issues no upstream
\* call and stores no dataset.
C9_NoUpstreamCallWithoutQuota ==
    [][\A s \in Sessions :
        /\ pc[s] = "fetch" => checked[s]
        /\ obs' # obs => \E t \in Sessions : pc[t] = "fetch" /\ checked[t] /\ obs'.by = t
        /\ (pc[s] = "idle" /\ message'[s] = "quota_reached") =>
              (pc'[s] = "idle" /\ obs' = obs /\ session' = session)]_vars

C9_Witness ==
    /\ pc["s1"] = "idle" /\ message["s1"] = "quota_reached" /\ ~checked["s1"]
    /\ obs.by = "s1" /\ obs.ok /\ obs.calls > 0
    /\ ~can_make_request(plat["s1"])

\* C10 (as stated): an upstream error on any page of the ID listing aborts the
\* request: get_channel_data returns no dataset.
C10_ListingErrorAborts ==
    obs.listErr # "none" => ~obs.ok

\* C10 (amended): an exception other than HttpError on a listing page
\* propagates and aborts the request.  An HttpError only ends the pagination:
\* the request is aborted ("No videos found") when no ID was collected before
\* it, as on the first page, and otherwise goes on to the detail fetch with
\* the IDs of the earlier pages.
C10_ListingErrorAbortsWithoutIds ==
    /\ obs.listErr = "other" => (~obs.ok /\ obs.stage = "list")
    /\ (obs.listErr = "http" /\ ~obs.gotIds) => (~obs.ok /\ obs.stage = "no_videos")
    /\ (obs.listErr = "http" /\ obs.gotIds) => obs.stage \in {"details", "no_details", "done"}

C10_Witness ==
    /\ obs.listErr = "http" /\ obs.gotIds /\ obs.ok
    /\ message["s1"] = "success" /\ Displayed("s1") = "youtube"

\* the IDs the first j pages hold
RECURSIVE Collected(_, _)
Collected(pages, j) == IF j = 0 THEN 0 ELSE Collected(pages, j - 1) + pages[j].n

\* every page requested holds no more items than its request asked for:
\* maxResults = min(50, max_results - len(video_ids))
PagesWithinRequest(pages, max_results, calls) ==
    \A j \in 1..calls :
        pages[j].n <= Min(PageSize, max_results - Collected(pages, j - 1))

\* C14: as long as every page holds at most the requested number of items,
\* get_video_ids_from_playlist never returns more than max_results IDs; it
\* requests no page when max_results = 0; and, when no page fails, it requests
\* a page exactly while fewer than max_results IDs are collected and the page
\* before carried a nextPageToken.
C14_ListingBounded ==
    (call.fn = "get_video_ids_from_playlist" /\ outcome.done
        /\ PagesWithinRequest(call.pages, call.max_results, outcome.calls)) =>
        /\ outcome.n <= call.max_results
        /\ call.max_results = 0 => outcome.calls = 0
        /\ \A j \in 1..outcome.calls :
              /\ Collected(call.pages, j - 1) < call.max_results
              /\ j > 1 => call.pages[j - 1].more
        /\ outcome.err = "none" =>
              /\ outcome.n = Collected(call.pages, outcome.calls)
              /\ \/ outcome.n >= call.max_results
                 \/ outcome.calls > 0 /\ ~call.pages[outcome.calls].more

C14_Witness ==
    /\ call.fn = "get_video_ids_from_playlist" /\ outcome.done
    /\ PagesWithinRequest(call.pages, call.max_results, outcome.calls)
    /\ call.max_results = PageSize
    /\ outcome.calls = 1 /\ outcome.n = call.max_results /\ outcome.err = "none"
    /\ call.pages[1].more /\ Len(call.pages) > 1

\* the records of the public items of one response
PublicRecords(items, now) ==
    LET F[k \in 0..Len(items)] ==
            IF k = 0 THEN <<>>
            ELSE IF items[k].privacy = "public"
            THEN Append(F[k - 1], video_data(items[k], now).rec)
            ELSE F[k - 1]
    IN  F[Len(items)]

\* the records of the responses that are not an error, in batch order
RecordsOfAnswered(resp, now) ==
    LET G[b \in 0..Len(resp)] ==
            IF b = 0 THEN <<>>
            ELSE IF resp[b].kind = "items"
            THEN G[b - 1] \o PublicRecords(resp[b].items, now)
            ELSE G[b - 1]
    IN  G[Len(resp)]

\* no call raises anything but HttpError and every item carries the keys
\* the loop reads from it
NothingPropagates(resp) ==
    \A b \in 1..Len(resp) :
        /\ resp[b].kind # "other_error"
        /\ \A k \in 1..Len(resp[b].items) :
              /\ "status" \in resp[b].items[k].keys
              /\ resp[b].items[k].privacy = "public" =>
                    RequiredKeys \subseteq resp[b].items[k].keys

RecordsOfComplete(resp, now) ==
    LET ok(it) == RequiredKeys \subseteq it.keys /\ it.privacy = "public"
        F[b \in 0..Len(resp), k \in 0..MaxRecs + 1] ==
            IF b = 0 THEN <<>>
            ELSE IF k = 0 THEN F[b - 1, IF b = 1 THEN 0 ELSE Len(resp[b - 1].items)]
            ELSE IF ok(resp[b].items[k])
            THEN Append(F[b, k - 1], video_data(resp[b].items[k], now).rec)
            ELSE F[b, k - 1]
    IN  IF Len(resp) = 0 THEN <<>> ELSE F[Len(resp), Len(resp[Len(resp)].items)]

\* C12: a raw record that lacks a required field (status, snippet, title,
\* contentDetails, id) is left out of the output, and the other records of its
\* batch and of the later batches are still normalized and returned:
\* get_video_details does not raise.
C12_MissingFieldRecordDropped ==
    (/\ call.fn = "get_video_details" /\ outcome.done
     /\ \A b \in 1..Len(call.resp) : call.resp[b].kind # "other_error") =>
        /\ ~outcome.raised
        /\ outcome.records = RecordsOfComplete(call.resp, call.now)

\* C15: for n video IDs get_video_details issues ceil(n/50) calls, each for a
\* contiguous chunk of at most 50 IDs, the chunks in order make up the list
\* (every ID in exactly one chunk), and every record of the output comes from
\* an item whose privacy status is public, one record per such item (no call
\* raising anything but HttpError, no item lacking a key the loop reads).
C15_ChunksOfFifty ==
    (call.fn = "get_video_details" /\ outcome.done /\ NothingPropagates(call.resp)) =>
        LET n == Len(call.video_ids)
            q == outcome.requests
            cat[b \in 0..Len(q)] == IF b = 0 THEN <<>> ELSE cat[b - 1] \o q[b]
            public == {<<b, k>> \in (1..Len(call.resp)) \X (1..MaxRecs + 1) :
                          /\ call.resp[b].kind = "items"
                          /\ k <= Len(call.resp[b].items)
                          /\ call.resp[b].items[k].privacy = "public"}
        IN  /\ Len(q) * PageSize >= n
            /\ Len(q) > 0 => (Len(q) - 1) * PageSize < n
            /\ \A b \in 1..Len(q) : Len(q[b]) \in 1..PageSize
            /\ cat[Len(q)] = call.video_ids
            /\ Len(outcome.records) = Cardinality(public)
            /\ \A i \in 1..Len(outcome.records) :
                  \E bk \in public :
                      call.resp[bk[1]].items[bk[2]].id = outcome.records[i].video_id

C15_Witness ==
    /\ call.fn = "get_video_details" /\ outcome.done
    /\ Len(call.video_ids) = PageSize + 1
    /\ Len(outcome.requests) = 2 /\ Len(outcome.requests[2]) = 1
    /\ call.resp[1].kind = "items" /\ Len(call.resp[1].items) = 2
    /\ call.resp[1].items[1].privacy = "private"
    /\ call.resp[1].items[2].privacy = "public"
    /\ call.resp[2].kind = "items"
    /\ Len(outcome.records) = 1

\* the strings that are no duration and no timestamp
MalformedDurations == {<<>>, <<"5", "S">>, <<"P", "T", "M">>}
MalformedTimestamps == {<<>>, <<"yesterday">>, <<"3", "T", "5", "Z", "Z">>}

\* C13: normalizing a public record whose duration or timestamp is malformed
\* (or absent) does not raise: the record is emitted, with duration_seconds = 0
\* for a duration that does not parse and upload_date = the current UTC time
\* for a timestamp that does not parse.
C13_MalformedFieldsDefaulted ==
    (/\ call.fn = "get_video_details" /\ outcome.done
     /\ Len(call.resp) = 1 /\ Len(call.resp[1].items) = 1
     /\ RequiredKeys \subseteq call.resp[1].items[1].keys
     /\ call.resp[1].items[1].privacy = "public") =>
        LET it == call.resp[1].items[1]
        IN  /\ ~outcome.raised
            /\ Len(outcome.records) = 1
            /\ ("duration" \notin it.keys \/ it.duration \in MalformedDurations) =>
                  outcome.records[1].duration_seconds = 0
            /\ ("publishedAt" \notin it.keys \/ it.publishedAt \in MalformedTimestamps) =>
                  outcome.records[1].upload_date = call.now
            /\ it.duration = <<"P", "T", "1", "M", "2", "S">> /\ "duration" \in it.keys =>
                  outcome.records[1].duration_seconds = 62
            /\ it.publishedAt = <<"3", "T", "5", "Z">> /\ "publishedAt" \in it.keys =>
                  outcome.records[1].upload_date = [day |-> 3, hour |-> 5, aware |-> TRUE]

C13_Witness ==
    /\ call.fn = "get_video_details" /\ outcome.done
    /\ call.resp[1].items[1].duration = <<"P", "T", "M">>
    /\ call.resp[1].items[1].publishedAt = <<"yesterday">>
    /\ call.resp[1].items[1].keys = ItemKeys
    /\ Len(outcome.records) = 1
    /\ outcome.records[1].duration_seconds = 0
    /\ outcome.records[1].upload_date = NowUtc
    /\ outcome.records[1].view_count = 200

\* C19: every record has engagement_rate = (like_count + comment_count) /
\* view_count * 100, to the fourth decimal it is rounded to, when view_count
\* > 0, and exactly 0 when view_count = 0; calculate_engagement_rate gives
\* the same quotient, unrounded, for the totals it is called with.
C19_EngagementRate ==
    /\ (call.fn = "get_video_details" /\ outcome.done) =>
          \A i \in 1..Len(outcome.records) :
              LET r == outcome.records[i]
                  exact == (r.like_count + r.comment_count) * 100 * 10000
                  diff == r.engagement_rate * r.view_count - exact
              IN  /\ r.view_count = 0 => r.engagement_rate = 0
                  /\ r.view_count > 0 =>
                        /\ 2 * diff <= r.view_count
                        /\ 2 * diff >= 0 - r.view_count
    /\ (call.fn = "calculate_engagement_rate" /\ outcome.done) =>
          /\ call.views = 0 => outcome.rate.num = 0
          /\ call.views > 0 =>
                outcome.rate.num * call.views =
                    (call.likes + call.comments) * 100 * outcome.rate.den

C19_Witness ==
    /\ call.fn = "get_video_details" /\ outcome.done
    /\ Len(outcome.records) = 1
    /\ outcome.records[1].view_count = 3
    /\ outcome.records[1].like_count = 7 /\ outcome.records[1].comment_count = 3
    /\ outcome.records[1].engagement_rate = 3333333

\* the string without its leading and trailing blanks
Trimmed(s) ==
    LET at == {k \in 1..Len(s) : s[k] # " "}
    IN  IF at = {} THEN <<>>
        ELSE SubSeq(s, CHOOSE a \in at : \A b \in at : a <= b,
                       CHOOSE a \in at : \A b \in at : a >= b)

\* C16: for an identifier that, once trimmed, is 24 characters long and starts
\* with 'UC', extract_channel_id returns the trimmed string and issues no call.
C16_RawIdReturnedWithoutCall ==
    (call.fn = "extract_channel_id" /\ outcome.done) =>
        LET t == Trimmed(call.channel_identifier)
        IN  (t # <<>> /\ t[1] = "UC" /\ StrLen(t) = 24) =>
                /\ outcome.ok
                /\ outcome.id = t
                /\ outcome.asked = <<>>

C16_Witness ==
    /\ call.fn = "extract_channel_id" /\ outcome.done
    /\ call.channel_identifier = <<" ">> \o RawId \o <<" ", " ">>
    /\ call.sc[1].kind = "items"
    /\ outcome.ok /\ outcome.id = RawId /\ outcome.asked = <<>>

\* the channel ID an identifier holds in itself: the trimmed identifier, or
\* the segment the first matching pattern captures, when it has the form of
\* an ID; <<>> when it holds none
HasIdForm(t) == t # <<>> /\ t[1] = "UC" /\ StrLen(t) = 24
DirectId(ident) ==
    LET t == Trimmed(ident)
        ps == {p \in 1..Len(Patterns) : re_search(Patterns[p], t).found}
    IN  IF HasIdForm(t) THEN t
        ELSE IF t # <<>> /\ t[1] = "@" THEN <<>>
        ELSE IF ps = {} THEN <<>>
        ELSE LET g == re_search(Patterns[CHOOSE p \in ps : \A r \in ps : p <= r], t).group
             IN  IF HasIdForm(g) THEN g ELSE <<>>

\* the IDs the answer to the last call issued holds
LastAnswerIds ==
    IF outcome.asked = <<>> THEN {}
    ELSE {call.sc[Len(outcome.asked)].items[k].id :
            k \in 1..Len(call.sc[Len(outcome.asked)].items)}

\* C17 (as stated): when the identifier is not a raw ID and every handle lookup
\* and search issued for it returns no items or fails (HttpError; the handle
\* lookup: any exception), extract_channel_id fails with the resolution error
\* (ValueError) and returns no ID; it returns an ID only when one of its
\* lookups produced it.
C17_UnmatchedFails ==
    (/\ call.fn = "extract_channel_id" /\ outcome.done
     /\ ~HasIdForm(Trimmed(call.channel_identifier))) =>
        /\ (\A j \in 1..Len(outcome.asked) :
                \/ call.sc[j].kind \in {"empty", "http_error"}
                \/ call.sc[j].kind = "other_error" /\ outcome.asked[j].api = "channels") =>
              (~outcome.ok /\ outcome.error = "ValueError")
        /\ outcome.ok => outcome.id \in LastAnswerIds

\* C17 (amended): when the identifier holds no channel ID (it is no raw ID and
\* no URL whose captured segment is one) and every handle lookup and search
\* issued for it returns no items or raises HttpError (the handle lookup: any
\* exception), extract_channel_id raises ValueError and returns no ID; a
\* search that raises another exception ends the resolution with that
\* exception.  An ID is returned only when the identifier holds it, without a
\* call, or when the last lookup issued produced it.
C17_UnmatchedFailsUnlessIdInUrl ==
    (call.fn = "extract_channel_id" /\ outcome.done) =>
        LET direct == DirectId(call.channel_identifier)
            n == Len(outcome.asked)
        IN  /\ (/\ direct = <<>>
                /\ \A j \in 1..n :
                      \/ call.sc[j].kind \in {"empty", "http_error"}
                      \/ call.sc[j].kind = "other_error" /\ outcome.asked[j].api = "channels")
                  => (~outcome.ok /\ outcome.error = "ValueError" /\ outcome.id = <<>>)
            /\ (\E j \in 1..n :
                    call.sc[j].kind = "other_error" /\ outcome.asked[j].api = "search")
                  => (~outcome.ok /\ outcome.error = "other" /\ outcome.id = <<>>)
            /\ outcome.ok =>
                  \/ direct # <<>> /\ outcome.id = direct /\ n = 0
                  \/ direct = <<>> /\ n > 0 /\ outcome.id \in LastAnswerIds

C17_Witness ==
    /\ call.fn = "extract_channel_id" /\ outcome.done
    /\ call.channel_identifier = <<"youtube.com", "/", "c", "/", "a", "B">>
    /\ Len(outcome.asked) = MaxCalls
    /\ call.sc[1].kind = "other_error" /\ call.sc[2].kind = "http_error"
    /\ call.sc[MaxCalls].kind = "empty"
    /\ ~outcome.ok /\ outcome.error = "ValueError"

\* C18: for an '@handle' identifier the first call is the handle lookup, whose
\* result is returned if it has one; only when it has none (or fails) is the
\* keyword search issued, and from its items the ID returned is that of the
\* first one whose title equals the handle, ignoring case, or else that of the
\* first item.
C18_HandleLookupThenSearch ==
    (/\ call.fn = "extract_channel_id" /\ outcome.done
     /\ Trimmed(call.channel_identifier) # <<>>
     /\ Trimmed(call.channel_identifier)[1] = "@") =>
        LET username == Tail(Trimmed(call.channel_identifier))
            found == call.sc[2].items
            same == {k \in 1..Len(found) : lower(found[k].channelTitle) = lower(username)}
        IN  /\ outcome.asked[1] = [api |-> "channels", q |-> username]
            /\ call.sc[1].kind = "items" =>
                  /\ outcome.ok /\ outcome.id = call.sc[1].items[1].id
                  /\ Len(outcome.asked) = 1
            /\ call.sc[1].kind # "items" =>
                  /\ Len(outcome.asked) >= 2
                  /\ outcome.asked[2] = [api |-> "search", q |-> username]
                  /\ call.sc[2].kind = "items" =>
                        /\ outcome.ok /\ Len(outcome.asked) = 2
                        /\ same # {} =>
                              \E k \in same :
                                  /\ \A j \in same : k <= j
                                  /\ outcome.id = found[k].id
                        /\ same = {} => outcome.id = found[1].id

C18_Witness ==
    /\ call.fn = "extract_channel_id" /\ outcome.done
    /\ call.channel_identifier = <<"@", "a", "B">>
    /\ call.sc[1].kind = "empty"
    /\ call.sc[2].kind = "items" /\ Len(call.sc[2].items) = 2
    /\ call.sc[2].items[1].channelTitle = <<"z">>
    /\ call.sc[2].items[2].channelTitle = <<"A", "b">>
    /\ outcome.ok /\ outcome.id = HitId(2) /\ Len(outcome.asked) = 2

\* the sum of a field over the rows of df whose index is in S
RECURSIVE SumOfRows(_, _, _)
SumOfRows(df, S, col) ==
    IF S = {} THEN 0
    ELSE LET i == CHOOSE x \in S : TRUE
         IN  df[i][col] + SumOfRows(df, S \ {i}, col)

\* C20: get_period_stats(start, end) counts exactly the rows with
\* start <= upload_date < end - a row uploaded at start is counted, one
\* uploaded at end is not - and videos, views, likes and comments are the
\* number of those rows and the sums over them, all zero when there is none.
C20_HalfOpenPeriod ==
    (call.fn = "get_period_stats" /\ outcome.done) =>
        LET S == {i \in 1..Len(call.df) :
                    /\ call.start_date <= call.df[i].upload_date
                    /\ call.df[i].upload_date < call.end_date}
        IN  /\ outcome.stats.videos = Cardinality(S)
            /\ outcome.stats.views = SumOfRows(call.df, S, "view_count")
            /\ outcome.stats.likes = SumOfRows(call.df, S, "like_count")
            /\ outcome.stats.comments = SumOfRows(call.df, S, "comment_count")
            /\ S = {} =>
                  /\ outcome.stats.videos = 0 /\ outcome.stats.views = 0
                  /\ outcome.stats.likes = 0 /\ outcome.stats.comments = 0

C20_Witness ==
    /\ call.fn = "get_period_stats" /\ outcome.done
    /\ Len(call.df) = 2
    /\ call.df[1].upload_date = call.start_date
    /\ call.df[2].upload_date = call.end_date
    /\ call.df[1].view_count = 5 /\ call.df[2].view_count = 5
    /\ outcome.stats.videos = 1 /\ outcome.stats.views = 5


\* sum-based rate: r is (likes + comments) / views * 100, or 0 without views
IsRateOfSums(r, views, likes, comments) ==
    /\ r.den > 0
    /\ IF views = 0 THEN r.num = 0
       ELSE r.num * views = (likes + comments) * 100 * r.den

RowsIn(df, start_date, end_date) ==
    {i \in 1..Len(df) : start_date <= df[i].upload_date /\ df[i].upload_date < end_date}

\* C21: the engagement rate of a period aggregate - get_period_stats and
\* get_overall_engagement - is (sum of likes + sum of comments) / (sum of
\* views) * 100 over the records of the period, and 0 when the summed views
\* are 0; it is computed from the sums, not as the mean of the rows' rates.
C21_RateFromSums ==
    /\ (call.fn = "get_overall_engagement" /\ outcome.done) =>
          LET S == 1..Len(call.df)
          IN  IsRateOfSums(outcome.stats.engagement_rate,
                           SumOfRows(call.df, S, "view_count"),
                           SumOfRows(call.df, S, "like_count"),
                           SumOfRows(call.df, S, "comment_count"))
    /\ (call.fn = "get_period_stats" /\ outcome.done) =>
          LET S == RowsIn(call.df, call.start_date, call.end_date)
          IN  IsRateOfSums(outcome.stats.engagement_rate,
                           SumOfRows(call.df, S, "view_count"),
                           SumOfRows(call.df, S, "like_count"),
                           SumOfRows(call.df, S, "comment_count"))

\* two rows whose mean rate (30) differs from the rate of their sums (100)
C21_Witness ==
    /\ call.fn = "get_overall_engagement" /\ outcome.done
    /\ Len(call.df) = 2
    /\ call.df[1].view_count = 5 /\ call.df[1].like_count = 1
    /\ call.df[2].view_count = 0 /\ call.df[2].like_count = 0
    /\ outcome.stats.engagement_rate = [num |-> 500, den |-> 5]


\* C22: calculate_change_percentage(current, previous) is
\* (current - previous) / previous * 100 when previous is not 0, 100 when
\* previous is 0 and current is above 0, and 0 when both are 0.
C22_ChangePercentage ==
    (call.fn = "calculate_change_percentage" /\ outcome.done) =>
        LET c == call.current
            p == call.previous
            r == outcome.change
        IN  /\ r.den # 0
            /\ p.num # 0 =>
                  r.num * (p.num * c.den) =
                      (c.num * p.den - p.num * c.den) * 100 * r.den
            /\ (p.num = 0 /\ c.num > 0) => r.num = 100 * r.den
            /\ (p.num = 0 /\ c.num = 0) => r.num = 0

\* from nothing to something: the change is 100
C22_Witness ==
    /\ call.fn = "calculate_change_percentage" /\ outcome.done
    /\ call.previous.num = 0 /\ call.current.num = 3
    /\ outcome.change = [num |-> 100, den |-> 1]


\* C24: the 30-day comparison takes both windows from the same now: the
\* current period counts the rows uploaded in [now-30d, now), the previous
\* period those in [now-60d, now-30d), so every row uploaded in [now-60d, now)
\* is counted in exactly one of the two and a row uploaded at now-30d is
\* counted in the current period only.
C24_WindowsTile ==
    (call.fn = "get_engagement_comparison" /\ outcome.done) =>
        LET now == call.now
            cur == RowsIn(call.df, now - timedelta(30), now)
            prev == RowsIn(call.df, now - timedelta(60), now - timedelta(30))
            both == RowsIn(call.df, now - timedelta(60), now)
            edge == {i \in 1..Len(call.df) :
                        call.df[i].upload_date = now - timedelta(30)}
            c == outcome.comparison.current_period
            p == outcome.comparison.previous_period
        IN  /\ c.videos = Cardinality(cur)
            /\ p.videos = Cardinality(prev)
            /\ c.views = SumOfRows(call.df, cur, "view_count")
            /\ p.views = SumOfRows(call.df, prev, "view_count")
            /\ c.videos + p.videos = Cardinality(both)
            /\ c.views + p.views = SumOfRows(call.df, both, "view_count")
            /\ edge \subseteq cur /\ edge \cap prev = {}

\* one row at now-30d and one just before it: one in each period
C24_Witness ==
    /\ call.fn = "get_engagement_comparison" /\ outcome.done
    /\ Len(call.df) = 2
    /\ call.df[1].upload_date = call.now - timedelta(30)
    /\ call.df[2].upload_date = call.now - timedelta(30) - 1
    /\ outcome.comparison.current_period.videos = 1
    /\ outcome.comparison.previous_period.videos = 1

\* C25: get_engagement_trend(N) returns N entries, oldest day first; entry k
\* (from 0) counts the rows uploaded in the 24 hours that end N-1-k days
\* before now, these N intervals tile [now-N days, now), and the entries'
\* video counts add up to the count of get_period_stats(now-N days, now).
C25_TrendTiles ==
    (call.fn = "get_engagement_trend" /\ outcome.done) =>
        LET now == call.now
            N == call.days
            t == outcome.trends
            day(k) == RowsIn(call.df, now - timedelta(N - 1 - k) - timedelta(1),
                             now - timedelta(N - 1 - k))
            whole == RowsIn(call.df, now - timedelta(N), now)
            videos == [k \in 1..N |-> [n |-> t[k].videos]]
        IN  /\ Len(t) = N
            /\ \A k \in 0..(N - 1) :
                  /\ t[k + 1].videos = Cardinality(day(k))
                  /\ t[k + 1].views = SumOfRows(call.df, day(k), "view_count")
                  /\ t[k + 1].date = date(now - timedelta(N - k))
            /\ \A k \in 1..(N - 1) : t[k].date < t[k + 1].date
            /\ \A i \in whole : Cardinality({k \in 0..(N - 1) : i \in day(k)}) = 1
            /\ \A k \in 0..(N - 1) : day(k) \subseteq whole
            /\ ColumnSum(videos, "n") = Cardinality(whole)
            /\ ColumnSum(videos, "n") =
                  get_period_stats(call.df, now - timedelta(N), now).videos

\* two days, a row on the start of each: the older day comes first
C25_Witness ==
    /\ call.fn = "get_engagement_trend" /\ outcome.done
    /\ call.days = 2
    /\ Len(call.df) = 2
    /\ call.df[1].upload_date = call.now - timedelta(1)
    /\ call.df[2].upload_date = call.now - timedelta(2)
    /\ call.df[1].view_count = 5 /\ call.df[2].view_count = 0
    /\ outcome.trends[1].videos = 1 /\ outcome.trends[1].views = 0
    /\ outcome.trends[2].videos = 1 /\ outcome.trends[2].views = 5


\* C23: for a fetched count f and a platform total t > 0 the dashboard shows
\* the partial-coverage warning, naming f and t, if and only if f / t < 0.95:
\* it is shown at 94 of 100 and not at 95 of 100.
C23_WarningBelow95 ==
    (call.fn = "coverage" /\ outcome.done /\ call.total_videos_channel > 0) =>
        LET f == call.fetched_count
            t == call.total_videos_channel
        IN  /\ outcome.warning.shown <=> (f * 100 < 95 * t)
            /\ outcome.warning.shown =>
                  (outcome.warning.fetched = f /\ outcome.warning.total = t)
            /\ (f = 94 /\ t = 100) => outcome.warning.shown
            /\ (f = 95 /\ t = 100) => ~outcome.warning.shown

C23_Witness ==
    /\ call.fn = "coverage" /\ outcome.done
    /\ call.fetched_count = 94 /\ call.total_videos_channel = 100
    /\ outcome.warning = [shown |-> TRUE, fetched |-> 94, total |-> 100]


\* the posts whose attributes can be read, in the order of the listing
GoodPosts(posts) == SelectSeq(posts, LAMBDA p : ~p.bad)

\* x, a whole number of 1/scale, is num / den rounded to the nearest 1/scale
IsRounded(x, num, den, scale) ==
    /\ 2 * (x * den - num * scale) <= den
    /\ 2 * (x * den - num * scale) >= 0 - den

\* a call of analyze_subreddit that returned, for a subreddit with members
SubredditAnalyzed ==
    /\ call.fn = "analyze_subreddit" /\ outcome.done
    /\ ~outcome.result.raised
    /\ outcome.result.members > 0

\* C26 as stated: each retained post has exactly engagement_rate =
\* (score + num_comments) / member_count * 100 and the aggregate
\* total_engagement_rate is exactly (sum of scores + sum of comment counts) /
\* member_count * 100.
C26_RatesExact ==
    SubredditAnalyzed =>
        LET r == outcome.result
            m == r.members
        IN  /\ \A i \in 1..Len(r.posts) :
                  r.posts[i].engagement_rate * m =
                      (r.posts[i].upvotes + r.posts[i].num_comments) * 100 * 10000
            /\ r.stats.total_engagement_rate * m =
                  (ColumnSum(r.posts, "upvotes") + ColumnSum(r.posts, "num_comments"))
                      * 100 * 100

\* C26, amended: the retained posts are the hot posts whose attributes can be
\* read; each has engagement_rate = (score + num_comments) / member_count *
\* 100 rounded to 4 decimals, and total_engagement_rate is (sum of scores +
\* sum of comment counts over the retained posts) / member_count * 100
\* rounded to 2 decimals - from the sums, not the mean of the posts' rates.
C26_RatesRounded ==
    SubredditAnalyzed =>
        LET r == outcome.result
            m == r.members
            good == GoodPosts(call.posts)
        IN  /\ ~call.hot_raises =>
                  /\ Len(r.posts) = Len(good)
                  /\ \A i \in 1..Len(good) :
                        /\ r.posts[i].upvotes = good[i].score
                        /\ r.posts[i].num_comments = good[i].num_comments
            /\ \A i \in 1..Len(r.posts) :
                  IsRounded(r.posts[i].engagement_rate,
                            (r.posts[i].upvotes + r.posts[i].num_comments) * 100,
                            m, 10000)
            /\ IsRounded(r.stats.total_engagement_rate,
                         (ColumnSum(r.posts, "upvotes")
                              + ColumnSum(r.posts, "num_comments")) * 100,
                         m, 100)

\* 3 members, posts of 5+2 and 0+0: rates 233.3333 and 0, total 233.33 (the
\* mean of the rates is 116.67)
C26_Witness ==
    /\ SubredditAnalyzed
    /\ outcome.result.members = 3
    /\ Len(outcome.result.posts) = 2
    /\ outcome.result.posts[1].engagement_rate = 2333333
    /\ outcome.result.posts[2].engagement_rate = 0
    /\ outcome.result.stats.total_engagement_rate = 23333
    /\ outcome.result.stats.avg_engagement_rate = 11667

\* C30: when the subreddit reports 0 members, analyze_subreddit does not
\* raise; every post is skipped, the returned post dataset is empty and the
\* aggregate engagement fields (total_engagement_rate, avg_engagement_rate,
\* the totals) are all 0.
C30_NoMembersNoPosts ==
    (/\ call.fn = "analyze_subreddit" /\ outcome.done
     /\ call.found /\ ~call.info_raises /\ call.subscribers = 0) =>
        /\ ~outcome.result.raised
        /\ outcome.result.members = 0
        /\ outcome.result.posts = <<>>
        /\ outcome.result.posts_analyzed = 0
        /\ outcome.result.stats.total_engagement_rate = 0
        /\ outcome.result.stats.avg_engagement_rate = 0
        /\ outcome.result.stats.comment_rate = 0
        /\ outcome.result.stats.total_upvotes = 0
        /\ outcome.result.stats.total_comments = 0
        /\ outcome.result.stats.total_posts_fetched = 0

\* two readable posts with scores, no members
C30_Witness ==
    /\ call.fn = "analyze_subreddit" /\ outcome.done
    /\ call.found /\ ~call.info_raises /\ ~call.hot_raises
    /\ call.subscribers = 0
    /\ Len(call.posts) = 2
    /\ \A i \in 1..2 : ~call.posts[i].bad /\ call.posts[i].score = 5
    /\ ~outcome.result.raised
    /\ outcome.result.posts = <<>>


\* C29: get_video_ids_from_playlist terminates: as long as every page that
\* carries a next cursor holds at least one item, it has issued at most
\* max_results page requests and it comes to an end; and it stops at once on
\* the first listing error and on the first page without a next cursor.
C29_ListingTerminates ==
    /\ [](call.fn = "listing_loop" =>
            /\ Loop.paged => Loop.requests <= call.max_results
            /\ Loop.last \in {"http_error", "other_error", "last_page"} => Loop.done)
    /\ <>(call.fn = "listing_loop" /\ (Loop.done \/ ~Loop.paged))

\* three pages of one item each, all with a cursor: three requests for
\* max_results = 3, and the loop has returned
C29_Witness ==
    /\ call.fn = "listing_loop" /\ call.max_results = 3
    /\ Loop.done /\ Loop.paged /\ Loop.last = "page"
    /\ Loop.requests = 3 /\ Loop.len = 3


\* the batches a fetch of nids IDs asks for
BatchesOf(nids) == 1..total_batches(nids)

\* C27: get_channel_data never returns an empty dataset - it raises or it
\* returns at least one public record; when every detail batch fails
\* upstream, or no fetched item is public, it ends with the error "Could not
\* fetch video details" rather than with a dataset of reduced coverage.
C27_NeverEmptyDataset ==
    (call.fn = "get_channel_data" /\ outcome.done) =>
        LET r == outcome.result
            l == get_video_ids_from_playlist(call.pages, Min(call.max_videos, call.total))
            listed == call.resolved /\ call.st = "items" /\ ~l.raised /\ l.n > 0
        IN  /\ r.ok => r.records >= 1
            /\ r.ok =>
                  \E b \in BatchesOf(r.ids) :
                      call.batches[b].kind = "ok" /\ call.batches[b].public >= 1
            /\ (listed /\ \A b \in BatchesOf(l.n) :
                              \/ call.batches[b].kind = "http_error"
                              \/ call.batches[b].kind = "ok" /\ call.batches[b].public = 0)
                  => (~r.ok /\ r.error = "Could not fetch video details")

\* 51 IDs listed, both detail batches end with HttpError
C27_Witness ==
    /\ call.fn = "get_channel_data" /\ outcome.done
    /\ outcome.result.ids = PageSize + 1
    /\ \A b \in 1..2 : call.batches[b].kind = "http_error"
    /\ ~outcome.result.ok
    /\ outcome.result.error = "Could not fetch video details"

\* every batch answers with no more items than IDs were asked for
DetailsWithinRequest(batches, nids) ==
    \A b \in BatchesOf(nids) :
        batches[b].public + batches[b].hidden <= Min(PageSize, nids - PageSize * (b - 1))

\* the listing of a call of get_channel_data
ListingOf(c) == get_video_ids_from_playlist(c.pages, Min(c.max_videos, c.total))

\* C28 as stated: when every listing page holds at most the requested number
\* of items, a successful get_channel_data returns at most
\* min(max_videos, total_videos) records, so the coverage is at most 100.
C28_RecordsWithinLimit ==
    (/\ call.fn = "get_channel_data" /\ outcome.done /\ outcome.result.ok
     /\ PagesWithinRequest(call.pages, Min(call.max_videos, call.total),
                           ListingOf(call).calls)) =>
        /\ outcome.result.records <= Min(call.max_videos, call.total)
        /\ LET percent == coverage_percent(outcome.result.records, call.total)
           IN  percent.num <= 100 * percent.den

\* C28, amended: when every listing page holds at most the requested number
\* of items and every detail batch answers with at most one item per
\* requested ID, a successful get_channel_data returns at most
\* min(max_videos, total_videos) records, and the coverage computed from it
\* is at most 100.
C28_RecordsWithinLimitOfAnswers ==
    (/\ call.fn = "get_channel_data" /\ outcome.done /\ outcome.result.ok
     /\ PagesWithinRequest(call.pages, Min(call.max_videos, call.total),
                           ListingOf(call).calls)
     /\ DetailsWithinRequest(call.batches, outcome.result.ids)) =>
        /\ outcome.result.ids <= Min(call.max_videos, call.total)
        /\ outcome.result.records <= outcome.result.ids
        /\ outcome.result.records <= Min(call.max_videos, call.total)
        /\ LET percent == coverage_percent(outcome.result.records, call.total)
           IN  percent.num <= 100 * percent.den

\* 60 videos on the platform, pages of 50 and 1, 51 public records: the
\* records stay below the limit of 60
C28_Witness ==
    /\ call.fn = "get_channel_data" /\ outcome.done /\ outcome.result.ok
    /\ call.total = 60 /\ call.max_videos = MaxVideos
    /\ PagesWithinRequest(call.pages, 60, ListingOf(call).calls)
    /\ DetailsWithinRequest(call.batches, outcome.result.ids)
    /\ outcome.result.ids = PageSize + 1
    /\ outcome.result.records = PageSize + 1

====
